---------------------------- MODULE Spec2Model ----------------------------
(***************************************************************************)
(* A model of the MessagePack decode engine of src/core/decode.rs.         *)
(*                                                                         *)
(* The input source `rd` is an in-memory byte slice (`&mut &[u8]`, as in   *)
(* the documentation example of read_str): reading from it advances the    *)
(* slice, so `rd` holds the bytes not consumed yet.  Every public reader   *)
(* is one action: it is applied to the source as the last call left it,    *)
(* and the call is recorded: the source as it was handed in (`rd0`), the   *)
(* result (`res`) and the source as the call left it (`rd`).               *)
(*                                                                         *)
(* The source is either read by the caller through the free readers, or    *)
(* handed to Decoder::new and read through the methods of the Decoder      *)
(* (`owner`).  A method that takes a callback is one action too: the       *)
(* callback is one of a few the caller may pass (`args`), it runs inside   *)
(* the method, and each of its invocations is recorded with its argument,  *)
(* the source it found and what it returned (`calls`).  A behaviour is a   *)
(* run of successful calls on one source, ended by the first call that     *)
(* fails or panics.                                                        *)
(*                                                                         *)
(* Machine integers are kept at their width: a value of type uN/iN/fN is   *)
(* the sequence of its N/8 bytes, most significant first (two's complement *)
(* for iN).  A widening `as` cast zero- or sign-extends that sequence.     *)
(***************************************************************************)
EXTENDS Integers, Sequences, FiniteSets, TLC

VARIABLES
    rd,     \* the source: the bytes of the input not consumed yet
    op,     \* name of the reader called last ("none" before the first call)
    rd0,    \* the source as it was when that reader was called
    buf0,   \* the caller's buffer as passed to that call (read_str only)
    buf,    \* the caller's buffer when that call returned
    res,    \* what that call produced
    args,   \* the expected length and the callback passed to that call
    calls,  \* the invocations of the callback that call made, in order
    owner   \* who reads the source: the "caller", or the "decoder" built over it

vars == <<rd, op, rd0, buf0, buf, res, args, calls, owner>>

---------------------------------------------------------------------------
(* Bounds of the model. *)

\* longest tail of bytes that follows a first byte in the short inputs
MaxTail == 1
\* longest body that follows a header in the long inputs
MaxBody == 10
\* largest capacity of the buffer a caller passes to read_str
MaxBuf == 16

\* bytes of elements after an array or map header
MaxElems == 3

---------------------------------------------------------------------------
(* Values, errors and results. *)

Byte == 0..255

\* A value of a Rust type: its type and its bytes, most significant first.
MkVal(ty, bits) == [ty |-> ty, bits |-> bits]

Unit == MkVal("unit", <<>>)

Bool(b) == MkVal("bool", IF b THEN <<1>> ELSE <<0>>)

\* A pair (a, b), as the fixext readers return.
Pair(a, b) == [ty |-> "tuple", bits |-> <<>>, fst |-> a, snd |-> b]

\* struct ExtMeta { typeid: i8, size: u32 }
ExtMeta(typeid, size) ==
    [ty |-> "ExtMeta", bits |-> <<>>, typeid |-> typeid, size |-> size]

\* A tuple, struct or sequence of decoded values.
Tuple(items) == [ty |-> "tuple", bits |-> <<>>, items |-> items]

\* Option<T>
Some(v) == [ty |-> "Some", bits |-> <<>>, inner |-> v]

None == MkVal("Option::None", <<>>)

NoVal == MkVal("none", <<>>)

\* A Marker: the variant and the value it carries inline (0 when none).
Marker(name, val) == [name |-> name, val |-> val]

NoMarker == Marker("None", 0)

\* An error value: ety is the enum, kind the variant; the other fields are
\* the variant's payload and keep their default when the variant has none.
MkErr(ety, kind) ==
    [ety |-> ety, kind |-> kind, cause |-> "None", marker |-> NoMarker,
     len |-> NoVal, bytes |-> <<>>, upto |-> 0]

NoErr == MkErr("None", "None")

Ok(v) == [tag |-> "Ok", val |-> v, err |-> NoErr]

Err(e) == [tag |-> "Err", val |-> NoVal, err |-> e]

\* The call did not return: the thread panicked (an out-of-range slice index,
\* unimplemented!()).
Panic == [tag |-> "Panic", val |-> NoVal, err |-> NoErr]

\* What a reader hands back: its result and where it left the source.
Ret(r, p) == [res |-> r, pos |-> p]

---------------------------------------------------------------------------
(* Integer types. *)

SignedTypes == {"i8", "i16", "i32", "i64"}

UnsignedTypes == {"u8", "u16", "u32", "u64"}

Width(ty) ==
    CASE ty \in {"u8", "i8"} -> 1
      [] ty \in {"u16", "i16"} -> 2
      [] ty \in {"u32", "i32", "f32"} -> 4
      [] ty \in {"u64", "i64", "f64"} -> 8

Fill(n, b) == [i \in 1..n |-> b]

\* `v as ty` between integer types: truncation keeps the low bytes, widening
\* sign-extends a signed source and zero-extends an unsigned one.
As(v, ty) ==
    LET w == Width(ty)
        n == Len(v.bits)
        ext == IF v.ty \in SignedTypes /\ n > 0 /\ v.bits[1] >= 128
               THEN 255 ELSE 0
    IN  MkVal(ty, IF n >= w THEN SubSeq(v.bits, n - w + 1, n)
                  ELSE Fill(w - n, ext) \o v.bits)

\* The u8 / i8 a marker carries inline, as a value.
U8(n) == MkVal("u8", <<n>>)

I8(n) == MkVal("i8", <<(n + 256) % 256>>)

---------------------------------------------------------------------------
(* Marker::from_u8: the wire format's byte ranges. *)

Marker_from_u8(n) ==
    CASE n <= 127 -> Marker("PositiveFixnum", n)
      [] n >= 128 /\ n <= 143 -> Marker("FixedMap", n % 16)
      [] n >= 144 /\ n <= 159 -> Marker("FixedArray", n % 16)
      [] n >= 160 /\ n <= 191 -> Marker("FixedString", n % 32)
      [] n = 192 -> Marker("Null", 0)
      [] n = 193 -> Marker("Reserved", 0)
      [] n = 194 -> Marker("False", 0)
      [] n = 195 -> Marker("True", 0)
      [] n = 196 -> Marker("Bin8", 0)
      [] n = 197 -> Marker("Bin16", 0)
      [] n = 198 -> Marker("Bin32", 0)
      [] n = 199 -> Marker("Ext8", 0)
      [] n = 200 -> Marker("Ext16", 0)
      [] n = 201 -> Marker("Ext32", 0)
      [] n = 202 -> Marker("F32", 0)
      [] n = 203 -> Marker("F64", 0)
      [] n = 204 -> Marker("U8", 0)
      [] n = 205 -> Marker("U16", 0)
      [] n = 206 -> Marker("U32", 0)
      [] n = 207 -> Marker("U64", 0)
      [] n = 208 -> Marker("I8", 0)
      [] n = 209 -> Marker("I16", 0)
      [] n = 210 -> Marker("I32", 0)
      [] n = 211 -> Marker("I64", 0)
      [] n = 212 -> Marker("FixExt1", 0)
      [] n = 213 -> Marker("FixExt2", 0)
      [] n = 214 -> Marker("FixExt4", 0)
      [] n = 215 -> Marker("FixExt8", 0)
      [] n = 216 -> Marker("FixExt16", 0)
      [] n = 217 -> Marker("Str8", 0)
      [] n = 218 -> Marker("Str16", 0)
      [] n = 219 -> Marker("Str32", 0)
      [] n = 220 -> Marker("Array16", 0)
      [] n = 221 -> Marker("Array32", 0)
      [] n = 222 -> Marker("Map16", 0)
      [] n = 223 -> Marker("Map32", 0)
      [] n >= 224 -> Marker("NegativeFixnum", n - 256)

---------------------------------------------------------------------------
(* Reading bytes from the source. *)

\* byteorder's read of n bytes from a slice: all n bytes, or, when fewer are
\* left, UnexpectedEOF with the source drained.
ReadBytes(inp, p, n) ==
    IF p + n <= Len(inp)
    THEN [ok |-> TRUE, bytes |-> SubSeq(inp, p + 1, p + n), pos |-> p + n]
    ELSE [ok |-> FALSE, bytes |-> SubSeq(inp, p + 1, Len(inp)), pos |-> Len(inp)]

\* From<byteorder::Error> for MarkerReadError
MarkerReadError_UnexpectedEOF == MkErr("MarkerReadError", "UnexpectedEOF")

\* read_marker: Result<Marker, MarkerReadError>; an Ok result carries the
\* marker in the field marker.
read_marker(inp, p) ==
    LET r == ReadBytes(inp, p, 1)
    IN  IF r.ok
        THEN [ok |-> TRUE, marker |-> Marker_from_u8(r.bytes[1]),
              err |-> NoErr, pos |-> r.pos]
        ELSE [ok |-> FALSE, marker |-> NoMarker,
              err |-> MarkerReadError_UnexpectedEOF, pos |-> r.pos]

\* From<MarkerReadError> for ReadError
ReadError_from_MarkerReadError(e) == e.kind

\* From<MarkerReadError> for FixedValueReadError
FixedValueReadError_from(e) == MkErr("FixedValueReadError", e.kind)

\* The marker's read error reported as a failure to read the data.
ValueReadError_from_as_data(e) ==
    [MkErr("ValueReadError", "InvalidDataRead")
        EXCEPT !.cause = ReadError_from_MarkerReadError(e)]

\* From<MarkerReadError> for ValueReadError
ValueReadError_from(e) ==
    [MkErr("ValueReadError", "InvalidMarkerRead")
        EXCEPT !.cause = ReadError_from_MarkerReadError(e)]

FixedValueReadError_TypeMismatch(m) ==
    [MkErr("FixedValueReadError", "TypeMismatch") EXCEPT !.marker = m]

ValueReadError_TypeMismatch(m) ==
    [MkErr("ValueReadError", "TypeMismatch") EXCEPT !.marker = m]

ValueReadError_InvalidDataRead(cause) ==
    [MkErr("ValueReadError", "InvalidDataRead") EXCEPT !.cause = cause]

---------------------------------------------------------------------------
(* make_read_data_fn!: the fixed-width big-endian payload readers. *)

Reverse(s) == [i \in 1..Len(s) |-> s[Len(s) + 1 - i]]

\* read_data decoding the payload as little-endian.
read_data_little_endian(inp, p, ty) ==
    LET r == ReadBytes(inp, p, Width(ty))
    IN  IF r.ok
        THEN [res |-> Ok(MkVal(ty, Reverse(r.bytes))), pos |-> r.pos]
        ELSE [res |-> Err([MkErr("ValueReadError", "InvalidDataRead")
                              EXCEPT !.cause = "UnexpectedEOF"]),
              pos |-> r.pos]

read_data(inp, p, ty) ==
    LET r == ReadBytes(inp, p, Width(ty))
    IN  IF r.ok
        THEN Ret(Ok(MkVal(ty, r.bytes)), r.pos)
        ELSE Ret(Err(ValueReadError_InvalidDataRead("UnexpectedEOF")), r.pos)

read_data_u8(inp, p) == read_data(inp, p, "u8")

read_data_u16(inp, p) == read_data(inp, p, "u16")

read_data_u32(inp, p) == read_data(inp, p, "u32")

read_data_u64(inp, p) == read_data(inp, p, "u64")

read_data_i8(inp, p) == read_data(inp, p, "i8")

read_data_i16(inp, p) == read_data(inp, p, "i16")

read_data_i32(inp, p) == read_data(inp, p, "i32")

read_data_i64(inp, p) == read_data(inp, p, "i64")

read_data_f32(inp, p) == read_data(inp, p, "f32")

read_data_f64(inp, p) == read_data(inp, p, "f64")

\* Ok(try!(d) as ty): the data reader's error as it is, its value cast.
CastRet(d, ty) ==
    IF d.res.tag = "Ok" THEN Ret(Ok(As(d.res.val, ty)), d.pos) ELSE d

---------------------------------------------------------------------------
(* Strict readers of the single-byte values. *)

read_nil(inp, p) ==
    LET m == read_marker(inp, p)
    IN  IF ~m.ok THEN Ret(Err(FixedValueReadError_from(m.err)), m.pos)
        ELSE CASE m.marker.name = "Null" -> Ret(Ok(Unit), m.pos)
               [] OTHER -> Ret(Err(FixedValueReadError_TypeMismatch(m.marker)), m.pos)

read_bool(inp, p) ==
    LET m == read_marker(inp, p)
    IN  IF ~m.ok THEN Ret(Err(FixedValueReadError_from(m.err)), m.pos)
        ELSE CASE m.marker.name = "True" -> Ret(Ok(Bool(TRUE)), m.pos)
               [] m.marker.name = "False" -> Ret(Ok(Bool(FALSE)), m.pos)
               [] OTHER -> Ret(Err(FixedValueReadError_TypeMismatch(m.marker)), m.pos)

read_pfix(inp, p) ==
    LET m == read_marker(inp, p)
    IN  IF ~m.ok THEN Ret(Err(FixedValueReadError_from(m.err)), m.pos)
        ELSE CASE m.marker.name = "PositiveFixnum" -> Ret(Ok(U8(m.marker.val)), m.pos)
               [] OTHER -> Ret(Err(FixedValueReadError_TypeMismatch(m.marker)), m.pos)

read_nfix(inp, p) ==
    LET m == read_marker(inp, p)
    IN  IF ~m.ok THEN Ret(Err(FixedValueReadError_from(m.err)), m.pos)
        ELSE CASE m.marker.name = "NegativeFixnum" -> Ret(Ok(I8(m.marker.val)), m.pos)
               [] OTHER -> Ret(Err(FixedValueReadError_TypeMismatch(m.marker)), m.pos)

---------------------------------------------------------------------------
(* Strict readers of the multi-byte numbers. *)
read_u8(inp, p) ==
    LET m == read_marker(inp, p)
    IN  IF ~m.ok THEN Ret(Err(ValueReadError_from(m.err)), m.pos)
        ELSE CASE m.marker.name = "U8" -> read_data_u8(inp, m.pos)
               [] OTHER -> Ret(Err(ValueReadError_TypeMismatch(m.marker)), m.pos)

read_u16(inp, p) ==
    LET m == read_marker(inp, p)
    IN  IF ~m.ok THEN Ret(Err(ValueReadError_from(m.err)), m.pos)
        ELSE CASE m.marker.name = "U16" -> read_data_u16(inp, m.pos)
               [] OTHER -> Ret(Err(ValueReadError_TypeMismatch(m.marker)), m.pos)

\* read_u32 reporting the marker it expected instead of the one it met.
read_u32_expected(inp, p) ==
    LET m == read_marker(inp, p)
    IN  IF ~m.ok THEN Ret(Err(ValueReadError_from(m.err)), m.pos)
        ELSE CASE m.marker.name = "U32" -> read_data_u32(inp, m.pos)
               [] OTHER -> Ret(Err(ValueReadError_TypeMismatch(Marker("U32", 0))), m.pos)

read_u32(inp, p) ==
    LET m == read_marker(inp, p)
    IN  IF ~m.ok THEN Ret(Err(ValueReadError_from(m.err)), m.pos)
        ELSE CASE m.marker.name = "U32" -> read_data_u32(inp, m.pos)
               [] OTHER -> Ret(Err(ValueReadError_TypeMismatch(m.marker)), m.pos)

read_u64(inp, p) ==
    LET m == read_marker(inp, p)
    IN  IF ~m.ok THEN Ret(Err(ValueReadError_from(m.err)), m.pos)
        ELSE CASE m.marker.name = "U64" -> read_data_u64(inp, m.pos)
               [] OTHER -> Ret(Err(ValueReadError_TypeMismatch(m.marker)), m.pos)

read_i8(inp, p) ==
    LET m == read_marker(inp, p)
    IN  IF ~m.ok THEN Ret(Err(ValueReadError_from(m.err)), m.pos)
        ELSE CASE m.marker.name = "I8" -> read_data_i8(inp, m.pos)
               [] OTHER -> Ret(Err(ValueReadError_TypeMismatch(m.marker)), m.pos)

read_i16(inp, p) ==
    LET m == read_marker(inp, p)
    IN  IF ~m.ok THEN Ret(Err(ValueReadError_from(m.err)), m.pos)
        ELSE CASE m.marker.name = "I16" -> read_data_i16(inp, m.pos)
               [] OTHER -> Ret(Err(ValueReadError_TypeMismatch(m.marker)), m.pos)

read_i32(inp, p) ==
    LET m == read_marker(inp, p)
    IN  IF ~m.ok THEN Ret(Err(ValueReadError_from(m.err)), m.pos)
        ELSE CASE m.marker.name = "I32" -> read_data_i32(inp, m.pos)
               [] OTHER -> Ret(Err(ValueReadError_TypeMismatch(m.marker)), m.pos)

read_i64(inp, p) ==
    LET m == read_marker(inp, p)
    IN  IF ~m.ok THEN Ret(Err(ValueReadError_from(m.err)), m.pos)
        ELSE CASE m.marker.name = "I64" -> read_data_i64(inp, m.pos)
               [] OTHER -> Ret(Err(ValueReadError_TypeMismatch(m.marker)), m.pos)

read_f32(inp, p) ==
    LET m == read_marker(inp, p)
    IN  IF ~m.ok THEN Ret(Err(ValueReadError_from(m.err)), m.pos)
        ELSE CASE m.marker.name = "F32" -> read_data_f32(inp, m.pos)
               [] OTHER -> Ret(Err(ValueReadError_TypeMismatch(m.marker)), m.pos)

read_f64(inp, p) ==
    LET m == read_marker(inp, p)
    IN  IF ~m.ok THEN Ret(Err(ValueReadError_from(m.err)), m.pos)
        ELSE CASE m.marker.name = "F64" -> read_data_f64(inp, m.pos)
               [] OTHER -> Ret(Err(ValueReadError_TypeMismatch(m.marker)), m.pos)

---------------------------------------------------------------------------
(* Loose readers: any narrower encoding of the same signedness. *)

\* read_u8_loosely rejecting a marker only after it has read the byte that
\* follows it.
read_u8_loosely_data_first(inp, p) ==
    LET m == read_marker(inp, p)
    IN  IF ~m.ok THEN Ret(Err(ValueReadError_from(m.err)), m.pos)
        ELSE CASE m.marker.name = "PositiveFixnum" -> Ret(Ok(As(U8(m.marker.val), "u8")), m.pos)
               [] m.marker.name = "U8" -> CastRet(read_data_u8(inp, m.pos), "u8")
               [] OTHER -> Ret(Err(ValueReadError_TypeMismatch(m.marker)),
                               IF m.pos < Len(inp) THEN m.pos + 1 ELSE m.pos)

read_u8_loosely(inp, p) ==
    LET m == read_marker(inp, p)
    IN  IF ~m.ok THEN Ret(Err(ValueReadError_from(m.err)), m.pos)
        ELSE CASE m.marker.name = "PositiveFixnum" -> Ret(Ok(As(U8(m.marker.val), "u8")), m.pos)
               [] m.marker.name = "U8" -> CastRet(read_data_u8(inp, m.pos), "u8")
               [] OTHER -> Ret(Err(ValueReadError_TypeMismatch(m.marker)), m.pos)

\* read_u16_loosely taking an i8 encoding as well.
read_u16_loosely_signed(inp, p) ==
    LET m == read_marker(inp, p)
    IN  IF ~m.ok THEN Ret(Err(ValueReadError_from(m.err)), m.pos)
        ELSE CASE m.marker.name = "PositiveFixnum" -> Ret(Ok(As(U8(m.marker.val), "u16")), m.pos)
               [] m.marker.name = "U8" -> CastRet(read_data_u8(inp, m.pos), "u16")
               [] m.marker.name = "I8" -> CastRet(read_data_i8(inp, m.pos), "u16")
               [] m.marker.name = "U16" -> CastRet(read_data_u16(inp, m.pos), "u16")
               [] OTHER -> Ret(Err(ValueReadError_TypeMismatch(m.marker)), m.pos)

read_u16_loosely(inp, p) ==
    LET m == read_marker(inp, p)
    IN  IF ~m.ok THEN Ret(Err(ValueReadError_from(m.err)), m.pos)
        ELSE CASE m.marker.name = "PositiveFixnum" -> Ret(Ok(As(U8(m.marker.val), "u16")), m.pos)
               [] m.marker.name = "U8" -> CastRet(read_data_u8(inp, m.pos), "u16")
               [] m.marker.name = "U16" -> CastRet(read_data_u16(inp, m.pos), "u16")
               [] OTHER -> Ret(Err(ValueReadError_TypeMismatch(m.marker)), m.pos)

read_u32_loosely(inp, p) ==
    LET m == read_marker(inp, p)
    IN  IF ~m.ok THEN Ret(Err(ValueReadError_from(m.err)), m.pos)
        ELSE CASE m.marker.name = "PositiveFixnum" -> Ret(Ok(As(U8(m.marker.val), "u32")), m.pos)
               [] m.marker.name = "U8" -> CastRet(read_data_u8(inp, m.pos), "u32")
               [] m.marker.name = "U16" -> CastRet(read_data_u16(inp, m.pos), "u32")
               [] m.marker.name = "U32" -> CastRet(read_data_u32(inp, m.pos), "u32")
               [] OTHER -> Ret(Err(ValueReadError_TypeMismatch(m.marker)), m.pos)

read_u64_loosely(inp, p) ==
    LET m == read_marker(inp, p)
    IN  IF ~m.ok THEN Ret(Err(ValueReadError_from(m.err)), m.pos)
        ELSE CASE m.marker.name = "PositiveFixnum" -> Ret(Ok(As(U8(m.marker.val), "u64")), m.pos)
               [] m.marker.name = "U8" -> CastRet(read_data_u8(inp, m.pos), "u64")
               [] m.marker.name = "U16" -> CastRet(read_data_u16(inp, m.pos), "u64")
               [] m.marker.name = "U32" -> CastRet(read_data_u32(inp, m.pos), "u64")
               [] m.marker.name = "U64" -> CastRet(read_data_u64(inp, m.pos), "u64")
               [] OTHER -> Ret(Err(ValueReadError_TypeMismatch(m.marker)), m.pos)

read_i8_loosely(inp, p) ==
    LET m == read_marker(inp, p)
    IN  IF ~m.ok THEN Ret(Err(ValueReadError_from(m.err)), m.pos)
        ELSE CASE m.marker.name = "NegativeFixnum" -> Ret(Ok(As(I8(m.marker.val), "i8")), m.pos)
               [] m.marker.name = "I8" -> CastRet(read_data_i8(inp, m.pos), "i8")
               [] OTHER -> Ret(Err(ValueReadError_TypeMismatch(m.marker)), m.pos)

\* read_i16_loosely reading the payload of an i8 as a u8.
read_i16_loosely_unsigned(inp, p) ==
    LET m == read_marker(inp, p)
    IN  IF ~m.ok THEN Ret(Err(ValueReadError_from(m.err)), m.pos)
        ELSE CASE m.marker.name = "NegativeFixnum" -> Ret(Ok(As(I8(m.marker.val), "i16")), m.pos)
               [] m.marker.name = "I8" -> CastRet(read_data_u8(inp, m.pos), "i16")
               [] m.marker.name = "I16" -> CastRet(read_data_i16(inp, m.pos), "i16")
               [] OTHER -> Ret(Err(ValueReadError_TypeMismatch(m.marker)), m.pos)

read_i16_loosely(inp, p) ==
    LET m == read_marker(inp, p)
    IN  IF ~m.ok THEN Ret(Err(ValueReadError_from(m.err)), m.pos)
        ELSE CASE m.marker.name = "NegativeFixnum" -> Ret(Ok(As(I8(m.marker.val), "i16")), m.pos)
               [] m.marker.name = "I8" -> CastRet(read_data_i8(inp, m.pos), "i16")
               [] m.marker.name = "I16" -> CastRet(read_data_i16(inp, m.pos), "i16")
               [] OTHER -> Ret(Err(ValueReadError_TypeMismatch(m.marker)), m.pos)

read_i32_loosely(inp, p) ==
    LET m == read_marker(inp, p)
    IN  IF ~m.ok THEN Ret(Err(ValueReadError_from(m.err)), m.pos)
        ELSE CASE m.marker.name = "NegativeFixnum" -> Ret(Ok(As(I8(m.marker.val), "i32")), m.pos)
               [] m.marker.name = "I8" -> CastRet(read_data_i8(inp, m.pos), "i32")
               [] m.marker.name = "I16" -> CastRet(read_data_i16(inp, m.pos), "i32")
               [] m.marker.name = "I32" -> CastRet(read_data_i32(inp, m.pos), "i32")
               [] OTHER -> Ret(Err(ValueReadError_TypeMismatch(m.marker)), m.pos)

read_i64_loosely(inp, p) ==
    LET m == read_marker(inp, p)
    IN  IF ~m.ok THEN Ret(Err(ValueReadError_from(m.err)), m.pos)
        ELSE CASE m.marker.name = "NegativeFixnum" -> Ret(Ok(As(I8(m.marker.val), "i64")), m.pos)
               [] m.marker.name = "I8" -> CastRet(read_data_i8(inp, m.pos), "i64")
               [] m.marker.name = "I16" -> CastRet(read_data_i16(inp, m.pos), "i64")
               [] m.marker.name = "I32" -> CastRet(read_data_i32(inp, m.pos), "i64")
               [] m.marker.name = "I64" -> CastRet(read_data_i64(inp, m.pos), "i64")
               [] OTHER -> Ret(Err(ValueReadError_TypeMismatch(m.marker)), m.pos)

---------------------------------------------------------------------------
(* Lengths: a u32 as a number, for the comparisons the code makes. *)

RECURSIVE StripZeros(_)
StripZeros(s) ==
    IF s = <<>> \/ s[1] # 0 THEN s ELSE StripZeros(Tail(s))

RECURSIVE ToNat(_)
\* the number a byte sequence spells, most significant byte first
ToNat(s) ==
    IF s = <<>> THEN 0 ELSE ToNat(SubSeq(s, 1, Len(s) - 1)) * 256 + s[Len(s)]

\* `len as usize` is below 2^24: ToNat is exact on it
Fits(v) == Len(StripZeros(v.bits)) <= 3

\* n < (v as usize), for a small n
LessThan(n, v) == ~Fits(v) \/ n < ToNat(v.bits)

\* min(n, v as usize), for a small n
MinOf(n, v) == IF LessThan(n, v) THEN n ELSE ToNat(v.bits)

---------------------------------------------------------------------------
(* Length and size headers. *)

\* read_str_len reading one byte of length after a str16 marker.
read_str_len_narrow(inp, p) ==
    LET m == read_marker(inp, p)
    IN  IF ~m.ok THEN Ret(Err(ValueReadError_from(m.err)), m.pos)
        ELSE CASE m.marker.name = "FixedString" -> Ret(Ok(As(U8(m.marker.val), "u32")), m.pos)
               [] m.marker.name = "Str8" -> CastRet(read_data_u8(inp, m.pos), "u32")
               [] m.marker.name = "Str16" -> CastRet(read_data_u8(inp, m.pos), "u32")
               [] m.marker.name = "Str32" -> read_data_u32(inp, m.pos)
               [] OTHER -> Ret(Err(ValueReadError_TypeMismatch(m.marker)), m.pos)

read_str_len(inp, p) ==
    LET m == read_marker(inp, p)
    IN  IF ~m.ok THEN Ret(Err(ValueReadError_from(m.err)), m.pos)
        ELSE CASE m.marker.name = "FixedString" -> Ret(Ok(As(U8(m.marker.val), "u32")), m.pos)
               [] m.marker.name = "Str8" -> CastRet(read_data_u8(inp, m.pos), "u32")
               [] m.marker.name = "Str16" -> CastRet(read_data_u16(inp, m.pos), "u32")
               [] m.marker.name = "Str32" -> read_data_u32(inp, m.pos)
               [] OTHER -> Ret(Err(ValueReadError_TypeMismatch(m.marker)), m.pos)

\* array32's length field read as 16 bits.
read_array_size_short(inp, p) ==
    LET m == read_marker(inp, p)
    IN  IF ~m.ok THEN Ret(Err(ValueReadError_from(m.err)), m.pos)
        ELSE CASE m.marker.name = "FixedArray" -> Ret(Ok(As(U8(m.marker.val), "u32")), m.pos)
               [] m.marker.name = "Array16" -> CastRet(read_data_u16(inp, m.pos), "u32")
               [] m.marker.name = "Array32" -> CastRet(read_data_u16(inp, m.pos), "u32")
               [] OTHER -> Ret(Err(ValueReadError_TypeMismatch(m.marker)), m.pos)

read_array_size(inp, p) ==
    LET m == read_marker(inp, p)
    IN  IF ~m.ok THEN Ret(Err(ValueReadError_from(m.err)), m.pos)
        ELSE CASE m.marker.name = "FixedArray" -> Ret(Ok(As(U8(m.marker.val), "u32")), m.pos)
               [] m.marker.name = "Array16" -> CastRet(read_data_u16(inp, m.pos), "u32")
               [] m.marker.name = "Array32" -> read_data_u32(inp, m.pos)
               [] OTHER -> Ret(Err(ValueReadError_TypeMismatch(m.marker)), m.pos)

read_map_size(inp, p) ==
    LET m == read_marker(inp, p)
    IN  IF ~m.ok THEN Ret(Err(ValueReadError_from(m.err)), m.pos)
        ELSE CASE m.marker.name = "FixedMap" -> Ret(Ok(As(U8(m.marker.val), "u32")), m.pos)
               [] m.marker.name = "Map16" -> CastRet(read_data_u16(inp, m.pos), "u32")
               [] m.marker.name = "Map32" -> read_data_u32(inp, m.pos)
               [] OTHER -> Ret(Err(ValueReadError_TypeMismatch(m.marker)), m.pos)

read_bin_len(inp, p) ==
    LET m == read_marker(inp, p)
    IN  IF ~m.ok THEN Ret(Err(ValueReadError_from(m.err)), m.pos)
        ELSE CASE m.marker.name = "Bin8" -> CastRet(read_data_u8(inp, m.pos), "u32")
               [] m.marker.name = "Bin16" -> CastRet(read_data_u16(inp, m.pos), "u32")
               [] m.marker.name = "Bin32" -> read_data_u32(inp, m.pos)
               [] OTHER -> Ret(Err(ValueReadError_TypeMismatch(m.marker)), m.pos)

---------------------------------------------------------------------------
(* std::str::from_utf8: UTF-8 validation. *)

IsCont(s, i) == i <= Len(s) /\ s[i] >= 128 /\ s[i] <= 191

InRange(s, i, lo, hi) == i <= Len(s) /\ s[i] >= lo /\ s[i] <= hi

\* length of the well-formed sequence that starts at s[i], 0 when there is none
Utf8Step(s, i) ==
    LET b == s[i]
    IN  CASE b <= 127 -> 1
          [] b >= 194 /\ b <= 223 -> IF IsCont(s, i + 1) THEN 2 ELSE 0
          [] b = 224 ->
                IF InRange(s, i + 1, 160, 191) /\ IsCont(s, i + 2) THEN 3 ELSE 0
          [] (b >= 225 /\ b <= 236) \/ b = 238 \/ b = 239 ->
                IF IsCont(s, i + 1) /\ IsCont(s, i + 2) THEN 3 ELSE 0
          [] b = 237 ->
                IF InRange(s, i + 1, 128, 159) /\ IsCont(s, i + 2) THEN 3 ELSE 0
          [] b = 240 ->
                IF InRange(s, i + 1, 144, 191) /\ IsCont(s, i + 2) /\ IsCont(s, i + 3)
                THEN 4 ELSE 0
          [] b >= 241 /\ b <= 243 ->
                IF IsCont(s, i + 1) /\ IsCont(s, i + 2) /\ IsCont(s, i + 3)
                THEN 4 ELSE 0
          [] b = 244 ->
                IF InRange(s, i + 1, 128, 143) /\ IsCont(s, i + 2) /\ IsCont(s, i + 3)
                THEN 4 ELSE 0
          [] OTHER -> 0

RECURSIVE Utf8ValidUpTo(_, _)
\* number of leading bytes of s that are well-formed UTF-8, scanning from s[i]
Utf8ValidUpTo(s, i) ==
    IF i > Len(s) THEN Len(s)
    ELSE LET k == Utf8Step(s, i)
         IN  IF k = 0 THEN i - 1 ELSE Utf8ValidUpTo(s, i + k)

from_utf8(s) ==
    LET u == Utf8ValidUpTo(s, 1)
    IN  [ok |-> u = Len(s), valid_up_to |-> u]

---------------------------------------------------------------------------
(* Strings. *)

\* From<ValueReadError> for DecodeStringError
DecodeStringError_from(e) == [e EXCEPT !.ety = "DecodeStringError"]

DecodeStringError_BufferSizeTooSmall(len) ==
    [MkErr("DecodeStringError", "BufferSizeTooSmall") EXCEPT !.len = len]

DecodeStringError_InvalidDataCopy(bytes, cause) ==
    [MkErr("DecodeStringError", "InvalidDataCopy")
        EXCEPT !.bytes = bytes, !.cause = cause]

DecodeStringError_InvalidUtf8(bytes, upto) ==
    [MkErr("DecodeStringError", "InvalidUtf8")
        EXCEPT !.bytes = bytes, !.upto = upto]

\* What a reader that fills a buffer hands back: also the buffer as it left it.
RetBuf(r, p, b) == [res |-> r, pos |-> p, buf |-> b]

\* read_str_data handing out the whole buffer after a short copy.
read_str_data_whole(inp, p, len, b) ==
    LET size == MinOf(Len(inp) - p, len)
        out == SubSeq(inp, p + 1, p + size) \o SubSeq(b, size + 1, Len(b))
    IN  IF ~LessThan(size, len)
        THEN LET u == from_utf8(out)
             IN  IF u.ok
                 THEN RetBuf(Ok(MkVal("str", out)), p + size, out)
                 ELSE RetBuf(Err(DecodeStringError_InvalidUtf8(out, u.valid_up_to)),
                             p + size, out)
        ELSE RetBuf(Err(DecodeStringError_InvalidDataCopy(out, "UnexpectedEOF")),
                    p + size, out)

\* read_str_data taking the copied bytes for text without validating them.
read_str_data_unchecked(inp, p, len, b) ==
    LET size == MinOf(Len(inp) - p, len)
        out == SubSeq(inp, p + 1, p + size) \o SubSeq(b, size + 1, Len(b))
    IN  IF ~LessThan(size, len)
        THEN RetBuf(Ok(MkVal("str", out)), p + size, out)
        ELSE RetBuf(Err(DecodeStringError_InvalidDataCopy(
                            SubSeq(out, 1, size), "UnexpectedEOF")),
                    p + size, out)

\* read_str_data(rd, len, buf), buf holding exactly len bytes: io::copy moves
\* the bytes rd.take(len) yields, as many as are left up to len, to the front
\* of buf.
read_str_data(inp, p, len, b) ==
    LET size == MinOf(Len(inp) - p, len)
        out == SubSeq(inp, p + 1, p + size) \o SubSeq(b, size + 1, Len(b))
    IN  IF ~LessThan(size, len)
        THEN LET u == from_utf8(out)
             IN  IF u.ok
                 THEN RetBuf(Ok(MkVal("str", out)), p + size, out)
                 ELSE RetBuf(Err(DecodeStringError_InvalidUtf8(out, u.valid_up_to)),
                             p + size, out)
        ELSE RetBuf(Err(DecodeStringError_InvalidDataCopy(
                            SubSeq(out, 1, size), "UnexpectedEOF")),
                    p + size, out)

\* read_str copying what fits into the buffer before it checks the capacity.
read_str_copy_first(inp, p, b) ==
    LET l == read_str_len(inp, p)
    IN  IF l.res.tag # "Ok"
        THEN RetBuf(Err(DecodeStringError_from(l.res.err)), l.pos, b)
        ELSE IF LessThan(Len(b), l.res.val)
             THEN LET n == IF Len(inp) - l.pos < Len(b) THEN Len(inp) - l.pos ELSE Len(b)
                  IN  RetBuf(Err(DecodeStringError_BufferSizeTooSmall(l.res.val)),
                             l.pos + n,
                             SubSeq(inp, l.pos + 1, l.pos + n) \o SubSeq(b, n + 1, Len(b)))
             ELSE LET ulen == ToNat(l.res.val.bits)
                      d == read_str_data(inp, l.pos, l.res.val, SubSeq(b, 1, ulen))
                  IN  RetBuf(d.res, d.pos, d.buf \o SubSeq(b, ulen + 1, Len(b)))

\* read_str(rd, buf): the data is copied into &mut buf[0..ulen]; the rest of
\* the caller's buffer is not handed on.
read_str(inp, p, b) ==
    LET l == read_str_len(inp, p)
    IN  IF l.res.tag # "Ok"
        THEN RetBuf(Err(DecodeStringError_from(l.res.err)), l.pos, b)
        ELSE IF LessThan(Len(b), l.res.val)
             THEN RetBuf(Err(DecodeStringError_BufferSizeTooSmall(l.res.val)), l.pos, b)
             ELSE LET ulen == ToNat(l.res.val.bits)
                      d == read_str_data(inp, l.pos, l.res.val, SubSeq(b, 1, ulen))
                  IN  RetBuf(d.res, d.pos, d.buf \o SubSeq(b, ulen + 1, Len(b)))

\* read_str_ref(rd), sl being the slice rd: the view &rd[start .. start + len]
\* panics when it reaches past the end of the slice.
read_str_ref(sl) ==
    LET l == read_str_len(sl, 0)
    IN  IF l.res.tag # "Ok"
        THEN Err(DecodeStringError_from(l.res.err))
        ELSE IF LessThan(Len(sl) - l.pos, l.res.val)
             THEN Panic
             ELSE Ok(MkVal("bytes", SubSeq(sl, l.pos + 1, l.pos + ToNat(l.res.val.bits))))

\* The view taken without the length check: whatever the slice still holds.
read_bin_borrow_unchecked(sl) ==
    LET l == read_bin_len(sl, 0)
    IN  IF l.res.tag # "Ok"
        THEN Err(l.res.err)
        ELSE Ok(MkVal("bytes",
                      SubSeq(sl, l.pos + 1, l.pos + MinOf(Len(sl) - l.pos, l.res.val))))

\* read_bin_borrow(rd), sl being the slice rd: the length is checked against
\* the slice before the view &rd[pos .. pos + len] is taken.
read_bin_borrow(sl) ==
    LET l == read_bin_len(sl, 0)
    IN  IF l.res.tag # "Ok"
        THEN Err(l.res.err)
        ELSE IF LessThan(Len(sl) - l.pos, l.res.val)
             THEN Err(ValueReadError_InvalidDataRead("UnexpectedEOF"))
             ELSE Ok(MkVal("bytes", SubSeq(sl, l.pos + 1, l.pos + ToNat(l.res.val.bits))))

---------------------------------------------------------------------------
(* The extension readers. *)

\* a u32 literal below 256
U32(n) == MkVal("u32", <<0, 0, 0, n>>)

read_fixext1(inp, p) ==
    LET m == read_marker(inp, p)
    IN  IF ~m.ok THEN Ret(Err(ValueReadError_from(m.err)), m.pos)
        ELSE CASE m.marker.name = "FixExt1" ->
                    LET id == read_data_i8(inp, m.pos)
                    IN  IF id.res.tag # "Ok" THEN id
                        ELSE LET data == read_data_u8(inp, id.pos)
                             IN  IF data.res.tag # "Ok" THEN data
                                 ELSE Ret(Ok(Pair(id.res.val, data.res.val)), data.pos)
               [] OTHER -> Ret(Err(ValueReadError_TypeMismatch(m.marker)), m.pos)

read_fixext2(inp, p) ==
    LET m == read_marker(inp, p)
    IN  IF ~m.ok THEN Ret(Err(ValueReadError_from(m.err)), m.pos)
        ELSE CASE m.marker.name = "FixExt2" ->
                    LET id == read_data_i8(inp, m.pos)
                    IN  IF id.res.tag # "Ok" THEN id
                        ELSE LET data == read_data_u16(inp, id.pos)
                             IN  IF data.res.tag # "Ok" THEN data
                                 ELSE Ret(Ok(Pair(id.res.val, data.res.val)), data.pos)
               [] OTHER -> Ret(Err(ValueReadError_TypeMismatch(m.marker)), m.pos)

\* rd.read_u32::<byteorder::LittleEndian>(): the first byte read is the least
\* significant one
read_u32_LittleEndian(inp, p) ==
    LET r == ReadBytes(inp, p, 4)
    IN  IF r.ok
        THEN Ret(Ok(MkVal("u32", Reverse(r.bytes))), r.pos)
        ELSE Ret(Err(ValueReadError_InvalidDataRead("UnexpectedEOF")), r.pos)

\* The targets the crate is built for differ in their byte order.
Hosts == {"little", "big"}

\* mem::transmute::<u32, [u8; 4]>: the bytes of the integer as the host lays
\* them out in memory
transmute(v, host) ==
    MkVal("bytes", IF host = "little" THEN Reverse(v.bits) ELSE v.bits)

read_fixext4(inp, p, host) ==
    LET m == read_marker(inp, p)
    IN  IF ~m.ok THEN Ret(Err(ValueReadError_from(m.err)), m.pos)
        ELSE CASE m.marker.name = "FixExt4" ->
                    LET id == read_data_i8(inp, m.pos)
                    IN  IF id.res.tag # "Ok" THEN id
                        ELSE LET data == read_u32_LittleEndian(inp, id.pos)
                             IN  IF data.res.tag # "Ok" THEN data
                                 ELSE Ret(Ok(Pair(id.res.val,
                                                  transmute(data.res.val, host))),
                                          data.pos)
               [] OTHER -> Ret(Panic, m.pos)

\* io::copy(&mut rd.take(n), &mut &mut out[..]): up to n bytes of the source
\* move into out, Ok(count) tells how many
io_copy_take(inp, p, n) ==
    LET k == IF Len(inp) - p < n THEN Len(inp) - p ELSE n
    IN  [count |-> k, out |-> SubSeq(inp, p + 1, p + k) \o Fill(n - k, 0),
         pos |-> p + k]

\* the body read_fixext8 and read_fixext16 share, n being 8 or 16 and own the
\* marker
read_fixext_n(inp, p, own, n) ==
    LET m == read_marker(inp, p)
    IN  IF ~m.ok THEN Ret(Err(ValueReadError_from(m.err)), m.pos)
        ELSE CASE m.marker.name = own ->
                    LET id == read_data_i8(inp, m.pos)
                    IN  IF id.res.tag # "Ok" THEN id
                        ELSE LET c == io_copy_take(inp, id.pos, n)
                             IN  IF c.count = n
                                 THEN Ret(Ok(Pair(id.res.val, MkVal("bytes", c.out))),
                                          c.pos)
                                 ELSE Ret(Panic, c.pos)
               [] OTHER -> Ret(Panic, m.pos)

read_fixext8(inp, p) == read_fixext_n(inp, p, "FixExt8", 8)

read_fixext16(inp, p) == read_fixext_n(inp, p, "FixExt16", 16)

\* The type id taken from the byte after the marker, the size from the next.
read_ext_meta_id_first(inp, p) ==
    LET m == read_marker(inp, p)
    IN  IF ~m.ok THEN Ret(Err(ValueReadError_from(m.err)), m.pos)
        ELSE LET t == read_data_i8(inp, m.pos)
                 size ==
                     CASE m.marker.name = "FixExt1" -> Ret(Ok(U32(1)), t.pos)
                       [] m.marker.name = "FixExt2" -> Ret(Ok(U32(2)), t.pos)
                       [] m.marker.name = "FixExt4" -> Ret(Ok(U32(4)), t.pos)
                       [] m.marker.name = "FixExt8" -> Ret(Ok(U32(8)), t.pos)
                       [] m.marker.name = "FixExt16" -> Ret(Ok(U32(16)), t.pos)
                       [] m.marker.name = "Ext8" -> CastRet(read_data_u8(inp, t.pos), "u32")
                       [] m.marker.name = "Ext16" -> CastRet(read_data_u16(inp, t.pos), "u32")
                       [] m.marker.name = "Ext32" -> read_data_u32(inp, t.pos)
                       [] OTHER -> Ret(Panic, m.pos)
             IN  IF size.res.tag = "Panic" THEN size
                 ELSE IF t.res.tag # "Ok" THEN t
                 ELSE IF size.res.tag # "Ok" THEN size
                 ELSE Ret(Ok(ExtMeta(t.res.val, size.res.val)), size.pos)

read_ext_meta(inp, p) ==
    LET m == read_marker(inp, p)
    IN  IF ~m.ok THEN Ret(Err(ValueReadError_from(m.err)), m.pos)
        ELSE LET size ==
                     CASE m.marker.name = "FixExt1" -> Ret(Ok(U32(1)), m.pos)
                       [] m.marker.name = "FixExt2" -> Ret(Ok(U32(2)), m.pos)
                       [] m.marker.name = "FixExt4" -> Ret(Ok(U32(4)), m.pos)
                       [] m.marker.name = "FixExt8" -> Ret(Ok(U32(8)), m.pos)
                       [] m.marker.name = "FixExt16" -> Ret(Ok(U32(16)), m.pos)
                       [] m.marker.name = "Ext8" -> CastRet(read_data_u8(inp, m.pos), "u32")
                       [] m.marker.name = "Ext16" -> CastRet(read_data_u16(inp, m.pos), "u32")
                       [] m.marker.name = "Ext32" -> read_data_u32(inp, m.pos)
                       [] OTHER -> Ret(Panic, m.pos)
             IN  IF size.res.tag # "Ok" THEN size
                 ELSE LET typeid == read_data_i8(inp, size.pos)
                      IN  IF typeid.res.tag # "Ok" THEN typeid
                          ELSE Ret(Ok(ExtMeta(typeid.res.val, size.res.val)), typeid.pos)

---------------------------------------------------------------------------
(* mod serialize: the Decoder over a source, and its Error. *)

Error_TypeMismatch(m) == [MkErr("Error", "TypeMismatch") EXCEPT !.marker = m]

Error_InvalidMarkerRead(cause) ==
    [MkErr("Error", "InvalidMarkerRead") EXCEPT !.cause = cause]

Error_InvalidDataRead(cause) ==
    [MkErr("Error", "InvalidDataRead") EXCEPT !.cause = cause]

\* LengthMismatch(actual), actual being a u32
Error_LengthMismatch(actual) ==
    [MkErr("Error", "LengthMismatch") EXCEPT !.len = actual]

\* Uncategorized(message): the message is kept in the field cause
Error_Uncategorized(message) ==
    [MkErr("Error", "Uncategorized") EXCEPT !.cause = message]

\* From<FixedValueReadError> for Error
Error_from_FixedValueReadError(e) ==
    CASE e.kind = "UnexpectedEOF" -> Error_InvalidMarkerRead("UnexpectedEOF")
      [] e.kind = "Io" -> Error_InvalidMarkerRead("Io")
      [] e.kind = "TypeMismatch" -> Error_TypeMismatch(e.marker)

\* From<ValueReadError> for Error
Error_from_ValueReadError(e) ==
    CASE e.kind = "TypeMismatch" -> Error_TypeMismatch(e.marker)
      [] e.kind = "InvalidMarkerRead" -> Error_InvalidMarkerRead(e.cause)
      [] e.kind = "InvalidDataRead" -> Error_InvalidDataRead(e.cause)

\* Ok(try!(r)) in a function returning Result<T, Error>: the value as it is,
\* the error converted by From; a panic stays a panic
Try(r) ==
    IF r.res.tag = "Err"
    THEN Ret(Err(IF r.res.err.ety = "FixedValueReadError"
                 THEN Error_from_FixedValueReadError(r.res.err)
                 ELSE Error_from_ValueReadError(r.res.err)),
             r.pos)
    ELSE r

Decoder_read_nil(inp, p) == Try(read_nil(inp, p))

Decoder_read_bool(inp, p) == Try(read_bool(inp, p))

Decoder_read_u8(inp, p) == Try(read_u8_loosely(inp, p))

\* The adapter reading through the strict reader.
Decoder_read_u16_strict(inp, p) == Try(read_u16(inp, p))

Decoder_read_u16(inp, p) == Try(read_u16_loosely(inp, p))

Decoder_read_u32(inp, p) == Try(read_u32_loosely(inp, p))

Decoder_read_u64(inp, p) == Try(read_u64_loosely(inp, p))

Decoder_read_i8(inp, p) == Try(read_i8_loosely(inp, p))

Decoder_read_i16(inp, p) == Try(read_i16_loosely(inp, p))

Decoder_read_i32(inp, p) == Try(read_i32_loosely(inp, p))

Decoder_read_i64(inp, p) == Try(read_i64_loosely(inp, p))

\* Decoder::error(msg)
Decoder_error(message) == Error_Uncategorized(message)

\* A callback the caller hands to the Decoder: kind says what it does, fs
\* names the primitives it decodes its fields or elements with, none is what
\* an Option callback answers to `false`.
Callback(kind, fs, none) == [kind |-> kind, fs |-> fs, none |-> none]

NoCallback == Callback("none", <<>>, "none")

\* One invocation of the callback: its argument besides the Decoder, where
\* the source stood, and what it returned.
Invocation(arg, p, r) == [arg |-> arg, pos |-> p, ret |-> r]

\* What an operation that takes a callback hands back: its result, where it
\* left the source, and the invocations it made, in order.
RetCalls(r, p, c) == [res |-> r, pos |-> p, calls |-> c]

\* the Decoder primitive a field or element is decoded with
Primitive(name, inp, p) ==
    CASE name = "nil" -> Decoder_read_nil(inp, p)
      [] name = "bool" -> Decoder_read_bool(inp, p)
      [] name = "u8" -> Decoder_read_u8(inp, p)
      [] name = "u16" -> Decoder_read_u16(inp, p)

\* read_tuple_arg, read_struct_field, read_seq_elt, read_map_elt_key and
\* read_map_elt_val: f(self), f decoding one value
Decoder_read_elt(inp, p, name) == Primitive(name, inp, p)

RECURSIVE Fields(_, _, _, _)
RECURSIVE FieldsAfter(_, _, _, _)
\* a callback decoding the fields fs in turn, each under try!: the values
\* as a tuple, or the first error
Fields(inp, p, fs, acc) ==
    IF fs = <<>> THEN Ret(Ok(Tuple(acc)), p)
    ELSE FieldsAfter(inp, fs, acc, Decoder_read_elt(inp, p, Head(fs)))

\* try! on the field r just decoded, then the fields left
FieldsAfter(inp, fs, acc, r) ==
    IF r.res.tag # "Ok" THEN r
    ELSE Fields(inp, r.pos, Tail(fs), Append(acc, r.res.val))

\* a callback F: FnOnce(&mut Self) -> Result<T> run on the Decoder
CallOnce(f, inp, p) ==
    CASE f.kind = "fields" -> Fields(inp, p, f.fs, <<>>)
      [] f.kind = "fail" -> Ret(Err(Decoder_error("unsupported")), p)

\* f(self, ..) in tail position: the callback, called with arg at p, returned
\* r, which is what the method returns
Invoked(arg, p, r) == RetCalls(r.res, r.pos, <<Invocation(arg, p, r.res)>>)

\* The callback run whatever the header holds.
Decoder_read_tuple_unchecked(inp, len, f, actual) ==
    IF actual.res.tag # "Ok" THEN RetCalls(actual.res, actual.pos, <<>>)
    ELSE Invoked(Unit, actual.pos, CallOnce(f, inp, actual.pos))

\* read_tuple from `if len == actual as usize` on, actual being what
\* try!(read_array_size(&mut self.rd)) gave; len is a small usize
Decoder_read_tuple_sized(inp, len, f, actual) ==
    IF actual.res.tag # "Ok" THEN RetCalls(actual.res, actual.pos, <<>>)
    ELSE IF Fits(actual.res.val) /\ len = ToNat(actual.res.val.bits)
         THEN Invoked(Unit, actual.pos, CallOnce(f, inp, actual.pos))
         ELSE RetCalls(Err(Error_LengthMismatch(actual.res.val)), actual.pos, <<>>)

Decoder_read_tuple(inp, p, len, f) ==
    Decoder_read_tuple_sized(inp, len, f, Try(read_array_size(inp, p)))

Decoder_read_struct(inp, p, len, f) == Decoder_read_tuple(inp, p, len, f)

\* Ok(Some(try!(r)))
WrapSome(r) ==
    IF r.res.tag = "Ok" THEN Ret(Ok(Some(r.res.val)), r.pos) ELSE Ret(r.res, r.pos)

\* a callback F: FnMut(&mut Self, bool) -> Result<T> run on the Decoder: on
\* true it decodes the value (one primitive, or a tuple of the fields fs read
\* through read_tuple) and wraps it in Some, on false it answers None or
\* refuses
CallOption(f, inp, p, b) ==
    IF b
    THEN WrapSome(CASE f.kind = "value" -> Decoder_read_elt(inp, p, Head(f.fs))
                    [] f.kind = "tuple" ->
                          Decoder_read_tuple(inp, p, Len(f.fs),
                                             Callback("fields", f.fs, "none"))
                    [] f.kind = "fail" -> Ret(Err(Decoder_error("unsupported")), p))
    ELSE IF f.none = "None" THEN Ret(Ok(None), p)
         ELSE Ret(Err(Decoder_error("expected a value")), p)

\* the second call of the callback, with arg: it returned r, which is what
\* the method returns
InvokedAgain(first, arg, r) ==
    RetCalls(r.res, r.pos, Append(first.calls, Invocation(arg, first.pos, r.res)))

\* The fallback taken on every TypeMismatch.
Decoder_read_option_any_mismatch(inp, f, first) ==
    IF first.res.tag = "Err" /\ first.res.err.kind = "TypeMismatch"
    THEN InvokedAgain(first, Bool(FALSE), CallOption(f, inp, first.pos, FALSE))
    ELSE first

\* the match of read_option, first being the call f(self, true): Ok(val) and
\* Err(err) are handed on, Err(Error::TypeMismatch(Marker::Null)) leads to
\* f(self, false)
Decoder_read_option_match(inp, f, first) ==
    IF /\ first.res.tag = "Err"
       /\ first.res.err.kind = "TypeMismatch"
       /\ first.res.err.marker.name = "Null"
    THEN InvokedAgain(first, Bool(FALSE), CallOption(f, inp, first.pos, FALSE))
    ELSE first

Decoder_read_option(inp, p, f) ==
    Decoder_read_option_match(inp, f,
                              Invoked(Bool(TRUE), p, CallOption(f, inp, p, TRUE)))

\* `len as usize` of a u32, on a target whose usize has 64 bits
as_usize(v) == MkVal("usize", Fill(4, 0) \o v.bits)

RECURSIVE Elts(_, _, _, _, _, _)
RECURSIVE EltsAfter(_, _, _, _, _, _)
\* for i in 0..n: the primitives fs decoded in turn under try! (one for an
\* element of a sequence, key and value for an entry of a map) and the item
\* pushed; i stays small, n is a usize
Elts(inp, p, fs, i, n, acc) ==
    IF ~LessThan(i, n) THEN Ret(Ok(Tuple(acc)), p)
    ELSE EltsAfter(inp, fs, i, n, acc, Fields(inp, p, fs, <<>>))

\* try! on the item r just decoded, the push, then the items left
EltsAfter(inp, fs, i, n, acc, r) ==
    IF r.res.tag # "Ok" THEN r
    ELSE Elts(inp, r.pos, fs, i + 1, n,
              Append(acc, IF Len(fs) = 1 THEN r.res.val.items[1] ELSE r.res.val))

\* a callback F: FnOnce(&mut Self, usize) -> Result<T> run on the Decoder
CallLen(f, inp, p, n) ==
    CASE f.kind = "elts" -> Elts(inp, p, f.fs, 0, n, <<>>)
      [] f.kind = "fail" -> Ret(Err(Decoder_error("unsupported")), p)

\* The count cut down to the bytes left in a slice source.
Decoder_call_with_len_clamped(inp, f, len) ==
    IF len.res.tag # "Ok" THEN RetCalls(len.res, len.pos, <<>>)
    ELSE Invoked(MkVal("usize", Fill(7, 0) \o <<MinOf(Len(inp) - len.pos, len.res.val)>>),
                 len.pos,
                 CallLen(f, inp, len.pos,
                         MkVal("usize",
                               Fill(7, 0) \o <<MinOf(Len(inp) - len.pos, len.res.val)>>)))

\* read_seq and read_map from `f(self, len)` on, len being what try! on the
\* size reader gave, before `as usize`
Decoder_call_with_len(inp, f, len) ==
    IF len.res.tag # "Ok" THEN RetCalls(len.res, len.pos, <<>>)
    ELSE Invoked(as_usize(len.res.val), len.pos,
                 CallLen(f, inp, len.pos, as_usize(len.res.val)))

Decoder_read_seq(inp, p, f) ==
    Decoder_call_with_len(inp, f, Try(read_array_size(inp, p)))

Decoder_read_map(inp, p, f) ==
    Decoder_call_with_len(inp, f, Try(read_map_size(inp, p)))

\* From<DecodeStringError> for Error, as try! applies it to the error e: the
\* Err the method returns, or the panic of unimplemented!()
Error_from_DecodeStringError(e) ==
    IF e.kind = "InvalidMarkerRead" THEN Err(Error_InvalidMarkerRead(e.cause))
    ELSE Panic

\* Ok(try!(d).to_string()), d being what read_str_data handed back
Decoder_read_str_data(d) ==
    CASE d.res.tag = "Ok" -> Ret(Ok(MkVal("String", d.res.val.bits)), d.pos)
      [] d.res.tag = "Err" -> Ret(Error_from_DecodeStringError(d.res.err), d.pos)
      [] OTHER -> Ret(d.res, d.pos)

\* read_str from `let mut buf` on, len being what try!(read_str_len(..))
\* gave.  The Vec holds len zeroes; no more of it is kept here than the copy
\* can reach, min(len, bytes left), the rest being dropped unread.
Decoder_read_str_len(inp, len) ==
    IF len.res.tag # "Ok" THEN len
    ELSE Decoder_read_str_data(
             read_str_data(inp, len.pos, len.res.val,
                           Fill(MinOf(Len(inp) - len.pos, len.res.val), 0)))

Decoder_read_str(inp, p) == Decoder_read_str_len(inp, Try(read_str_len(inp, p)))

\* The operations the Decoder does not support: each body is unimplemented!(),
\* a panic before the source or the callback f is touched.

Decoder_read_char(inp, p) == RetCalls(Panic, p, <<>>)

Decoder_read_enum(inp, p, f) == RetCalls(Panic, p, <<>>)

Decoder_read_enum_variant(inp, p, f) == RetCalls(Panic, p, <<>>)

Decoder_read_enum_variant_arg(inp, p, f) == RetCalls(Panic, p, <<>>)

Decoder_read_enum_struct_variant(inp, p, f) == RetCalls(Panic, p, <<>>)

Decoder_read_enum_struct_variant_field(inp, p, f) == RetCalls(Panic, p, <<>>)

\* A tuple struct decoded the way a tuple is.
Decoder_read_tuple_struct_as_tuple(inp, p, len, f) == Decoder_read_tuple(inp, p, len, f)

Decoder_read_tuple_struct(inp, p, len, f) == RetCalls(Panic, p, <<>>)

Decoder_read_tuple_struct_arg(inp, p, f) == RetCalls(Panic, p, <<>>)

---------------------------------------------------------------------------
(* The inputs and buffers the readers are run on. *)

Seqs(S, n) == UNION {[1..k -> S] : k \in 0..n}

\* one byte of every marker class, and the ends of the ranges
MarkerBytes ==
    {0, 5, 127, 128, 130, 143, 144, 146, 159, 160, 162, 191, 224, 251, 255}
        \cup (192..223)

\* an ASCII letter, a zero, a UTF-8 continuation byte, nil, and 0xff
TailBytes == {0, 97, 128, 192, 255}

ShortInputs ==
    {<<>>} \cup {<<b>> : b \in Byte}
        \cup {<<m>> \o t : m \in MarkerBytes, t \in Seqs(TailBytes, MaxTail)}

\* "le message"; bytes with the top bit set; multi-byte UTF-8 text
BodySeeds ==
    { <<108, 101, 32, 109, 101, 115, 115, 97, 103, 101>>,
      <<255, 254, 128, 1, 0, 127, 3, 169, 18, 52>>,
      <<195, 169, 226, 130, 172, 240, 159, 152, 128, 97>> }

\* the first n bytes of a seed, repeated as often as needed
Body(seed, n) == [i \in 1..n |-> seed[((i - 1) % Len(seed)) + 1]]

Bodies == {Body(s, n) : s \in BodySeeds, n \in 0..MaxBody}

\* the numeric markers; string headers of every width declaring 3, 10, 256
\* and 2^31 bytes; the array, map and bin markers that a length field follows;
\* bin headers of every width declaring 0, 3 and 10 bytes; array headers
\* holding 16, 65535 and 65536; fixext markers with a type id
Headers ==
    {<<m>> : m \in 202..211}
        \cup { <<163>>, <<170>>, <<217, 3>>, <<217, 10>>, <<218, 0, 3>>,
               <<218, 0, 10>>, <<218, 1, 0>>, <<219, 0, 0, 0, 3>>,
               <<219, 0, 0, 0, 10>>, <<219, 128, 0, 0, 0>> }
        \cup {<<m>> : m \in {196, 197, 198, 220, 221, 222, 223}}
        \cup { <<196, 0>>, <<196, 3>>, <<197, 0, 10>>, <<198, 0, 0, 0, 3>> }
        \cup { <<220, 0, 16>>, <<220, 255, 255>>, <<221, 0, 1, 0, 0>> }
        \cup { <<212, 1>>, <<213, 255>>, <<214, 1>>, <<215, 1>>, <<215, 255>> }

LongInputs == {h \o b : h \in Headers, b \in Bodies}

\* the sizes ext headers declare
ExtSizes == {0, 1, 2, 4, 8, 16, 255}

\* ext8, ext16 and ext32 headers, cut after the length field or after the
\* type id
ExtInputs ==
    {h \o t : h \in {<<199, s>> : s \in ExtSizes}
                        \cup {<<200, 0, 16>>, <<200, 1, 0>>,
                              <<201, 0, 0, 0, 8>>, <<201, 0, 1, 0, 0>>},
              t \in Seqs(TailBytes, MaxTail)}

\* fixext16 with one byte less than, exactly, and one byte more than its
\* payload
FixExt16Inputs ==
    {<<216, 1>> \o Body(<<108, 101, 32, 109, 101, 115, 115, 97, 103, 101>>, n) :
        n \in 15..17}
        \cup {<<216, 255>> \o Body(<<255, 254, 128, 1, 0, 127, 3, 169, 18, 52>>, n) :
                  n \in 15..17}

\* what an array or map header is followed by: the fixnum 5, nil, and the
\* marker of a u8
ElemBytes == {5, 192, 204}

\* fixarray and fixmap headers declaring 1, 2 and 3 items and an array16
\* header declaring 2, followed by up to MaxElems bytes of elements
ArrayInputs ==
    {h \o e : h \in {<<145>>, <<146>>, <<147>>, <<129>>, <<130>>, <<220, 0, 2>>},
              e \in Seqs(ElemBytes, MaxElems)}

\* the field counts callers expect of a tuple or struct
Lens == {2, 3}

\* the arguments of a call that takes neither a length nor a callback
NoArgs == [len |-> 0, f |-> NoCallback]

\* callbacks of read_tuple and read_struct: two u8 fields; one that gives up
OnceCallbacks ==
    {Callback("fields", <<"u8", "u8">>, "none"), Callback("fail", <<>>, "none")}

\* callbacks of read_option: Option<u8>, Option<(u8, u8)>, one whose value
\* cannot be decoded, and an Option<bool> that refuses absence
OptionCallbacks ==
    { Callback("value", <<"u8">>, "None"),
      Callback("tuple", <<"u8", "u8">>, "None"),
      Callback("fail", <<>>, "None"),
      Callback("value", <<"bool">>, "fail") }

\* callbacks of read_seq: Vec<u8> and Vec<()>
SeqCallbacks ==
    {Callback("elts", <<"u8">>, "none"), Callback("elts", <<"nil">>, "none")}

\* callbacks of read_map: a map from u8 to u8
MapCallbacks == {Callback("elts", <<"u8", "u8">>, "none")}

Inputs ==
    ShortInputs \cup LongInputs \cup ExtInputs \cup FixExt16Inputs \cup ArrayInputs

\* capacities of the caller's buffer, each filled with 0xee
BufSizes == {0, 2, 4, 10, MaxBuf}

Bufs == {Fill(n, 238) : n \in BufSizes}

---------------------------------------------------------------------------
(* The state machine. *)

Init ==
    /\ rd \in Inputs
    /\ op = "none"
    /\ rd0 = rd
    /\ buf0 = <<>>
    /\ buf = <<>>
    /\ res = Ok(Unit)
    /\ args = NoArgs
    /\ calls = <<>>
    /\ owner \in {"caller", "decoder"}

\* the source after its first n bytes were consumed
Advance(s, n) == SubSeq(s, n + 1, Len(s))

\* a call of reader o on the source: r is what it hands back.  The caller
\* reads on only after a call that returned Ok: an error is handed up (try!)
\* and a panic unwinds.
Do(o, r) ==
    /\ res.tag = "Ok"
    /\ owner = "caller"
    /\ op' = o
    /\ rd0' = rd
    /\ res' = r.res
    /\ rd' = Advance(rd, r.pos)
    /\ buf0' = <<>>
    /\ buf' = <<>>
    /\ args' = NoArgs
    /\ calls' = <<>>
    /\ owner' = owner

ReadNil == Do("read_nil", read_nil(rd, 0))

ReadBool == Do("read_bool", read_bool(rd, 0))

ReadPfix == Do("read_pfix", read_pfix(rd, 0))

ReadNfix == Do("read_nfix", read_nfix(rd, 0))

ReadU8 == Do("read_u8", read_u8(rd, 0))

ReadU16 == Do("read_u16", read_u16(rd, 0))

ReadU32 == Do("read_u32", read_u32(rd, 0))

ReadU64 == Do("read_u64", read_u64(rd, 0))

ReadI8 == Do("read_i8", read_i8(rd, 0))

ReadI16 == Do("read_i16", read_i16(rd, 0))

ReadI32 == Do("read_i32", read_i32(rd, 0))

ReadI64 == Do("read_i64", read_i64(rd, 0))

ReadF32 == Do("read_f32", read_f32(rd, 0))

ReadF64 == Do("read_f64", read_f64(rd, 0))

ReadU8Loosely == Do("read_u8_loosely", read_u8_loosely(rd, 0))

ReadU16Loosely == Do("read_u16_loosely", read_u16_loosely(rd, 0))

ReadU32Loosely == Do("read_u32_loosely", read_u32_loosely(rd, 0))

ReadU64Loosely == Do("read_u64_loosely", read_u64_loosely(rd, 0))

ReadI8Loosely == Do("read_i8_loosely", read_i8_loosely(rd, 0))

ReadI16Loosely == Do("read_i16_loosely", read_i16_loosely(rd, 0))

ReadI32Loosely == Do("read_i32_loosely", read_i32_loosely(rd, 0))

ReadI64Loosely == Do("read_i64_loosely", read_i64_loosely(rd, 0))

ReadStrLen == Do("read_str_len", read_str_len(rd, 0))

ReadArraySize == Do("read_array_size", read_array_size(rd, 0))

ReadMapSize == Do("read_map_size", read_map_size(rd, 0))

ReadBinLen == Do("read_bin_len", read_bin_len(rd, 0))

\* read_str(rd, buf) with a buffer b of the caller's
ReadStr ==
    \E b \in Bufs :
        LET r == read_str(rd, 0, b)
        IN  /\ res.tag = "Ok"
            /\ owner = "caller"
            /\ op' = "read_str"
            /\ rd0' = rd
            /\ res' = r.res
            /\ rd' = Advance(rd, r.pos)
            /\ buf0' = b
            /\ buf' = r.buf
            /\ args' = NoArgs
            /\ calls' = <<>>
            /\ owner' = owner

\* read_str_ref(rd) on what is left of the input: the slice is borrowed, the
\* caller's source is not advanced
ReadStrRef ==
    /\ res.tag = "Ok"
    /\ owner = "caller"
    /\ op' = "read_str_ref"
    /\ rd0' = rd
    /\ res' = read_str_ref(rd)
    /\ rd' = rd
    /\ buf0' = <<>>
    /\ buf' = <<>>
    /\ args' = NoArgs
    /\ calls' = <<>>
    /\ owner' = owner

\* read_bin_borrow(rd) on what is left of the input: the slice is borrowed,
\* the caller's source is not advanced
ReadBinBorrow ==
    /\ res.tag = "Ok"
    /\ owner = "caller"
    /\ op' = "read_bin_borrow"
    /\ rd0' = rd
    /\ res' = read_bin_borrow(rd)
    /\ rd' = rd
    /\ buf0' = <<>>
    /\ buf' = <<>>
    /\ args' = NoArgs
    /\ calls' = <<>>
    /\ owner' = owner

ReadFixext1 == Do("read_fixext1", read_fixext1(rd, 0))

ReadFixext2 == Do("read_fixext2", read_fixext2(rd, 0))

\* read_fixext4(rd) in a build for a little-endian or a big-endian target
ReadFixext4 == \E host \in Hosts : Do("read_fixext4", read_fixext4(rd, 0, host))

ReadFixext8 == Do("read_fixext8", read_fixext8(rd, 0))

ReadFixext16 == Do("read_fixext16", read_fixext16(rd, 0))

ReadExtMeta == Do("read_ext_meta", read_ext_meta(rd, 0))

\* the invocations c with, in place of the position, the source as the
\* callback found it
Sources(s, c) ==
    [i \in 1..Len(c) |->
        [arg |-> c[i].arg, rd |-> Advance(s, c[i].pos), ret |-> c[i].ret]]

\* a call of an operation of the Decoder: a is what the caller passed besides
\* the Decoder, r what the operation hands back, its invocations of the
\* callback included
DoWith(o, a, r) ==
    /\ res.tag = "Ok"
    /\ owner = "decoder"
    /\ op' = o
    /\ rd0' = rd
    /\ res' = r.res
    /\ rd' = Advance(rd, r.pos)
    /\ buf0' = <<>>
    /\ buf' = <<>>
    /\ args' = a
    /\ calls' = Sources(rd, r.calls)
    /\ owner' = owner

\* a call of a primitive of the Decoder: no callback
DoPrimitive(o, r) == DoWith(o, NoArgs, RetCalls(r.res, r.pos, <<>>))

DecoderReadU8 == DoPrimitive("Decoder::read_u8", Decoder_read_u8(rd, 0))

DecoderReadU16 == DoPrimitive("Decoder::read_u16", Decoder_read_u16(rd, 0))

DecoderReadU32 == DoPrimitive("Decoder::read_u32", Decoder_read_u32(rd, 0))

DecoderReadU64 == DoPrimitive("Decoder::read_u64", Decoder_read_u64(rd, 0))

DecoderReadI8 == DoPrimitive("Decoder::read_i8", Decoder_read_i8(rd, 0))

DecoderReadI16 == DoPrimitive("Decoder::read_i16", Decoder_read_i16(rd, 0))

DecoderReadI32 == DoPrimitive("Decoder::read_i32", Decoder_read_i32(rd, 0))

DecoderReadI64 == DoPrimitive("Decoder::read_i64", Decoder_read_i64(rd, 0))

DecoderReadStr == DoPrimitive("Decoder::read_str", Decoder_read_str(rd, 0))

DecoderReadTuple ==
    \E len \in Lens, f \in OnceCallbacks :
        DoWith("Decoder::read_tuple", [len |-> len, f |-> f],
               Decoder_read_tuple(rd, 0, len, f))

DecoderReadStruct ==
    \E len \in Lens, f \in OnceCallbacks :
        DoWith("Decoder::read_struct", [len |-> len, f |-> f],
               Decoder_read_struct(rd, 0, len, f))

DecoderReadOption ==
    \E f \in OptionCallbacks :
        DoWith("Decoder::read_option", [len |-> 0, f |-> f],
               Decoder_read_option(rd, 0, f))

DecoderReadSeq ==
    \E f \in SeqCallbacks :
        DoWith("Decoder::read_seq", [len |-> 0, f |-> f], Decoder_read_seq(rd, 0, f))

DecoderReadMap ==
    \E f \in MapCallbacks :
        DoWith("Decoder::read_map", [len |-> 0, f |-> f], Decoder_read_map(rd, 0, f))

DecoderReadChar == DoWith("Decoder::read_char", NoArgs, Decoder_read_char(rd, 0))

DecoderReadEnum ==
    \E f \in OnceCallbacks :
        DoWith("Decoder::read_enum", [len |-> 0, f |-> f], Decoder_read_enum(rd, 0, f))

DecoderReadEnumVariant ==
    \E f \in OnceCallbacks :
        DoWith("Decoder::read_enum_variant", [len |-> 0, f |-> f],
               Decoder_read_enum_variant(rd, 0, f))

DecoderReadEnumVariantArg ==
    \E f \in OnceCallbacks :
        DoWith("Decoder::read_enum_variant_arg", [len |-> 0, f |-> f],
               Decoder_read_enum_variant_arg(rd, 0, f))

DecoderReadEnumStructVariant ==
    \E f \in OnceCallbacks :
        DoWith("Decoder::read_enum_struct_variant", [len |-> 0, f |-> f],
               Decoder_read_enum_struct_variant(rd, 0, f))

DecoderReadEnumStructVariantField ==
    \E f \in OnceCallbacks :
        DoWith("Decoder::read_enum_struct_variant_field", [len |-> 0, f |-> f],
               Decoder_read_enum_struct_variant_field(rd, 0, f))

DecoderReadTupleStruct ==
    \E len \in Lens, f \in OnceCallbacks :
        DoWith("Decoder::read_tuple_struct", [len |-> len, f |-> f],
               Decoder_read_tuple_struct(rd, 0, len, f))

DecoderReadTupleStructArg ==
    \E f \in OnceCallbacks :
        DoWith("Decoder::read_tuple_struct_arg", [len |-> 0, f |-> f],
               Decoder_read_tuple_struct_arg(rd, 0, f))

Next ==
    \/ ReadNil \/ ReadBool \/ ReadPfix \/ ReadNfix
    \/ ReadU8 \/ ReadU16 \/ ReadU32 \/ ReadU64
    \/ ReadI8 \/ ReadI16 \/ ReadI32 \/ ReadI64
    \/ ReadF32 \/ ReadF64
    \/ ReadU8Loosely \/ ReadU16Loosely \/ ReadU32Loosely \/ ReadU64Loosely
    \/ ReadI8Loosely \/ ReadI16Loosely \/ ReadI32Loosely \/ ReadI64Loosely
    \/ ReadStrLen \/ ReadArraySize \/ ReadMapSize \/ ReadBinLen
    \/ ReadStr \/ ReadStrRef \/ ReadBinBorrow
    \/ ReadFixext1 \/ ReadFixext2 \/ ReadFixext4 \/ ReadFixext8 \/ ReadFixext16
    \/ ReadExtMeta
    \/ DecoderReadU8 \/ DecoderReadU16 \/ DecoderReadU32 \/ DecoderReadU64
    \/ DecoderReadI8 \/ DecoderReadI16 \/ DecoderReadI32 \/ DecoderReadI64
    \/ DecoderReadStr
    \/ DecoderReadTuple \/ DecoderReadStruct \/ DecoderReadOption
    \/ DecoderReadSeq \/ DecoderReadMap
    \/ DecoderReadChar \/ DecoderReadEnum \/ DecoderReadEnumVariant
    \/ DecoderReadEnumVariantArg \/ DecoderReadEnumStructVariant
    \/ DecoderReadEnumStructVariantField
    \/ DecoderReadTupleStruct \/ DecoderReadTupleStructArg

Spec == Init /\ [][Next]_vars

---------------------------------------------------------------------------
(* What the properties below speak about: the last call. *)

\* number of bytes the last call consumed from the source
Consumed == Len(rd0) - Len(rd)

\* the marker the first byte of the call's input decodes to
FirstMarker == Marker_from_u8(rd0[1])

\* the bytes that follow the marker byte in the call's input
AfterMarker == Len(rd0) - 1

\* bytes of payload or length field that follow each marker on the wire
Need(name) ==
    CASE name \in {"U8", "I8", "Str8", "Bin8"} -> 1
      [] name \in {"U16", "I16", "Str16", "Bin16", "Array16", "Map16"} -> 2
      [] name \in {"U32", "I32", "F32", "Str32", "Bin32", "Array32", "Map32"} -> 4
      [] name \in {"U64", "I64", "F64"} -> 8
      [] OTHER -> 0

FixedReaders == {"read_nil", "read_bool", "read_pfix", "read_nfix"}

StrictIntReaders ==
    {"read_u8", "read_u16", "read_u32", "read_u64",
     "read_i8", "read_i16", "read_i32", "read_i64"}

StrictReaders == FixedReaders \cup StrictIntReaders \cup {"read_f32", "read_f64"}

LooseUnsigned ==
    {"read_u8_loosely", "read_u16_loosely", "read_u32_loosely", "read_u64_loosely"}

LooseSigned ==
    {"read_i8_loosely", "read_i16_loosely", "read_i32_loosely", "read_i64_loosely"}

LengthReaders == {"read_str_len", "read_array_size", "read_map_size", "read_bin_len"}

\* the readers whose error type is ValueReadError
ValueReaders ==
    (StrictReaders \ FixedReaders) \cup LooseUnsigned \cup LooseSigned
        \cup LengthReaders

\* the type a numeric reader returns
TypeOf(o) ==
    CASE o \in {"read_u8", "read_u8_loosely"} -> "u8"
      [] o \in {"read_u16", "read_u16_loosely"} -> "u16"
      [] o \in {"read_u32", "read_u32_loosely"} -> "u32"
      [] o \in {"read_u64", "read_u64_loosely"} -> "u64"
      [] o \in {"read_i8", "read_i8_loosely"} -> "i8"
      [] o \in {"read_i16", "read_i16_loosely"} -> "i16"
      [] o \in {"read_i32", "read_i32_loosely"} -> "i32"
      [] o \in {"read_i64", "read_i64_loosely"} -> "i64"
      [] o = "read_f32" -> "f32"
      [] o = "read_f64" -> "f64"

\* the marker of each integer and float type
MarkerOf(ty) ==
    CASE ty = "u8" -> "U8" [] ty = "u16" -> "U16" [] ty = "u32" -> "U32"
      [] ty = "u64" -> "U64" [] ty = "i8" -> "I8" [] ty = "i16" -> "I16"
      [] ty = "i32" -> "I32" [] ty = "i64" -> "I64" [] ty = "f32" -> "F32"
      [] ty = "f64" -> "F64"

\* the markers each reader accepts
Accepts(o) ==
    CASE o = "read_nil" -> {"Null"}
      [] o = "read_bool" -> {"True", "False"}
      [] o = "read_pfix" -> {"PositiveFixnum"}
      [] o = "read_nfix" -> {"NegativeFixnum"}
      [] o \in StrictReaders \ FixedReaders -> {MarkerOf(TypeOf(o))}
      [] o \in LooseUnsigned ->
            {"PositiveFixnum"} \cup
                {MarkerOf(t) : t \in {u \in UnsignedTypes : Width(u) <= Width(TypeOf(o))}}
      [] o \in LooseSigned ->
            {"NegativeFixnum"} \cup
                {MarkerOf(t) : t \in {u \in SignedTypes : Width(u) <= Width(TypeOf(o))}}
      [] o = "read_str_len" -> {"FixedString", "Str8", "Str16", "Str32"}
      [] o = "read_array_size" -> {"FixedArray", "Array16", "Array32"}
      [] o = "read_map_size" -> {"FixedMap", "Map16", "Map32"}
      [] o = "read_bin_len" -> {"Bin8", "Bin16", "Bin32"}

IsTypeMismatch(r, m) ==
    r.tag = "Err" /\ r.err.kind = "TypeMismatch" /\ r.err.marker = m

---------------------------------------------------------------------------
(* C1: a strict reader given an input whose first byte decodes to a marker *)
(* it does not accept fails with TypeMismatch carrying exactly the marker  *)
(* that byte decodes to.                                                   *)
C1_StrictTypeMismatch ==
    (op \in StrictReaders /\ rd0 # <<>> /\ FirstMarker.name \notin Accepts(op))
        => IsTypeMismatch(res, FirstMarker)

\* read_u32 on a float64 encoding failed with TypeMismatch(F64)
C1_Witness ==
    /\ op = "read_u32"
    /\ rd0 # <<>> /\ rd0[1] = 203 /\ Len(rd0) >= 9
    /\ IsTypeMismatch(res, Marker("F64", 0))

(* C2: a strict integer reader given its own marker and at least N/8 more   *)
(* bytes returns the N-bit integer whose big-endian representation is those *)
(* N/8 bytes, and has consumed exactly 1 + N/8 bytes.                       *)
C2_StrictIntBigEndian ==
    (/\ op \in StrictIntReaders
     /\ rd0 # <<>>
     /\ FirstMarker.name = MarkerOf(TypeOf(op))
     /\ AfterMarker >= Width(TypeOf(op)))
        => /\ res.tag = "Ok"
           /\ res.val = MkVal(TypeOf(op), SubSeq(rd0, 2, 1 + Width(TypeOf(op))))
           /\ Consumed = 1 + Width(TypeOf(op))
           /\ rd = SubSeq(rd0, 2 + Width(TypeOf(op)), Len(rd0))

\* read_u64 decoded eight distinct payload bytes and left the byte after them
C2_Witness ==
    /\ op = "read_u64"
    /\ Len(rd0) >= 10 /\ rd0[1] = 207 /\ rd0[2] # rd0[9]
    /\ res.tag = "Ok"
    /\ Len(rd) = Len(rd0) - 9

(* C3: a reader returning ValueReadError fails with                         *)
(* InvalidMarkerRead(UnexpectedEOF) on an empty input and with              *)
(* InvalidDataRead(UnexpectedEOF) when an accepted marker is followed by    *)
(* fewer bytes than its payload or length field needs; neither stage is     *)
(* reported as the other.                                                   *)
C3_MarkerAndDataStages ==
    op \in ValueReaders =>
        /\ rd0 = <<>> =>
              /\ res.tag = "Err"
              /\ res.err.kind = "InvalidMarkerRead"
              /\ res.err.cause = "UnexpectedEOF"
        /\ (/\ rd0 # <<>>
            /\ FirstMarker.name \in Accepts(op)
            /\ AfterMarker < Need(FirstMarker.name)) =>
              /\ res.tag = "Err"
              /\ res.err.kind = "InvalidDataRead"
              /\ res.err.cause = "UnexpectedEOF"
        /\ (res.tag = "Err" /\ res.err.kind = "InvalidMarkerRead") => rd0 = <<>>
        /\ (res.tag = "Err" /\ res.err.kind = "InvalidDataRead") =>
              /\ rd0 # <<>>
              /\ FirstMarker.name \in Accepts(op)
              /\ AfterMarker < Need(FirstMarker.name)

\* read_u32_loosely met a u16 marker with one byte of its two: a data error
C3_Witness ==
    /\ op = "read_u32_loosely"
    /\ Len(rd0) = 2 /\ rd0[1] = 205
    /\ res.tag = "Err"
    /\ res.err.kind = "InvalidDataRead"
    /\ res.err.cause = "UnexpectedEOF"

---------------------------------------------------------------------------
(* The number a fixed-width integer stands for: its sign and its magnitude, *)
(* the magnitude in base 256 without leading zeros.                         *)

Invert(s) == [i \in 1..Len(s) |-> 255 - s[i]]

RECURSIVE Incr(_)
\* s + 1, modulo 256^Len(s)
Incr(s) ==
    IF s = <<>> THEN <<>>
    ELSE IF s[Len(s)] = 255
         THEN Incr(SubSeq(s, 1, Len(s) - 1)) \o <<0>>
         ELSE SubSeq(s, 1, Len(s) - 1) \o <<s[Len(s)] + 1>>

NumUnsigned(bits) == [neg |-> FALSE, mag |-> StripZeros(bits)]

NumSigned(bits) ==
    IF bits[1] >= 128
    THEN [neg |-> TRUE, mag |-> StripZeros(Incr(Invert(bits)))]
    ELSE [neg |-> FALSE, mag |-> StripZeros(bits)]

\* the bytes that encode the integer on the wire: the marker byte itself for
\* a fixnum, the payload after the marker otherwise
Encoded ==
    IF FirstMarker.name \in {"PositiveFixnum", "NegativeFixnum"}
    THEN <<rd0[1]>>
    ELSE SubSeq(rd0, 2, 1 + Need(FirstMarker.name))

(* C4: an unsigned loose reader succeeds exactly on a PositiveFixnum or a   *)
(* U<W> marker with W <= N followed by its payload, and returns the encoded *)
(* number unchanged at width N; any other marker, signed ones and wider     *)
(* unsigned ones included, gives TypeMismatch(that marker).                 *)
C4_LooseUnsigned ==
    (op \in LooseUnsigned /\ rd0 # <<>>) =>
        IF FirstMarker.name \in Accepts(op)
        THEN IF AfterMarker >= Need(FirstMarker.name)
             THEN /\ res.tag = "Ok"
                  /\ res.val.ty = TypeOf(op)
                  /\ Len(res.val.bits) = Width(TypeOf(op))
                  /\ NumUnsigned(res.val.bits) = NumUnsigned(Encoded)
             ELSE res.tag = "Err"
        ELSE IsTypeMismatch(res, FirstMarker)

\* positive fixnum 5 read with read_u32_loosely gave the u32 5
C4_Witness ==
    /\ op = "read_u32_loosely"
    /\ rd0 # <<>> /\ rd0[1] = 5
    /\ res = Ok(MkVal("u32", <<0, 0, 0, 5>>))

---------------------------------------------------------------------------
(* The string header a call's input starts with, read off the wire format:  *)
(* its size h and the length L it declares, as a u32.                       *)

StrHeader ==
    IF rd0 = <<>> THEN [ok |-> FALSE, h |-> 0, len |-> <<0, 0, 0, 0>>]
    ELSE CASE rd0[1] >= 160 /\ rd0[1] <= 191 ->
                [ok |-> TRUE, h |-> 1, len |-> <<0, 0, 0, rd0[1] - 160>>]
           [] rd0[1] = 217 /\ Len(rd0) >= 2 ->
                [ok |-> TRUE, h |-> 2, len |-> <<0, 0, 0, rd0[2]>>]
           [] rd0[1] = 218 /\ Len(rd0) >= 3 ->
                [ok |-> TRUE, h |-> 3, len |-> <<0, 0, rd0[2], rd0[3]>>]
           [] rd0[1] = 219 /\ Len(rd0) >= 5 ->
                [ok |-> TRUE, h |-> 5, len |-> <<rd0[2], rd0[3], rd0[4], rd0[5]>>]
           [] OTHER -> [ok |-> FALSE, h |-> 0, len |-> <<0, 0, 0, 0>>]

\* L exceeds n
DeclaresMoreThan(n) ==
    \/ StrHeader.len[1] # 0
    \/ StrHeader.len[2] * 65536 + StrHeader.len[3] * 256 + StrHeader.len[4] > n

\* L as a number, when it is below 2^24
DeclaredLen ==
    StrHeader.len[2] * 65536 + StrHeader.len[3] * 256 + StrHeader.len[4]

\* the bytes after the header
PayloadLeft == Len(rd0) - StrHeader.h

\* the L bytes after the header
Payload == SubSeq(rd0, StrHeader.h + 1, StrHeader.h + DeclaredLen)

(* C6: read_str whose header declares a length L above the buffer's         *)
(* capacity fails with BufferSizeTooSmall(L), has consumed the header and   *)
(* no payload byte, and leaves the buffer as it was.                        *)
C6_BufferTooSmall ==
    (op = "read_str" /\ StrHeader.ok /\ DeclaresMoreThan(Len(buf0))) =>
        /\ res.tag = "Err"
        /\ res.err.kind = "BufferSizeTooSmall"
        /\ res.err.len = MkVal("u32", StrHeader.len)
        /\ Consumed = StrHeader.h
        /\ rd = SubSeq(rd0, StrHeader.h + 1, Len(rd0))
        /\ buf = buf0

\* header 0xaa, "le message" and a 4-byte buffer gave BufferSizeTooSmall(10)
C6_Witness ==
    /\ op = "read_str"
    /\ rd0 = <<170, 108, 101, 32, 109, 101, 115, 115, 97, 103, 101>>
    /\ Len(buf0) = 4
    /\ res.tag = "Err"
    /\ res.err.kind = "BufferSizeTooSmall"
    /\ res.err.len.bits = <<0, 0, 0, 10>>
    /\ Len(rd) = 10

(* C7: read_str with a buffer of at least L bytes and only k < L payload    *)
(* bytes left fails with InvalidDataCopy(bytes, UnexpectedEOF), bytes being *)
(* exactly the k payload bytes that were there, in input order.             *)
C7_PartialCopy ==
    (/\ op = "read_str"
     /\ StrHeader.ok
     /\ ~DeclaresMoreThan(Len(buf0))
     /\ PayloadLeft < DeclaredLen) =>
        /\ res.tag = "Err"
        /\ res.err.kind = "InvalidDataCopy"
        /\ res.err.cause = "UnexpectedEOF"
        /\ Len(res.err.bytes) = PayloadLeft
        /\ res.err.bytes = SubSeq(rd0, StrHeader.h + 1, Len(rd0))

\* "le message" cut to 5 bytes, a 16-byte buffer: the error carries "le me"
C7_Witness ==
    /\ op = "read_str"
    /\ rd0 = <<170, 108, 101, 32, 109, 101>>
    /\ Len(buf0) = 16
    /\ res.tag = "Err"
    /\ res.err.kind = "InvalidDataCopy"
    /\ res.err.bytes = <<108, 101, 32, 109, 101>>

(* C8: read_str returns Ok only when all L declared bytes were copied and   *)
(* are valid UTF-8, the string being those L bytes and never a prefix of    *)
(* them; when all L bytes were copied and are not valid UTF-8 it fails with *)
(* InvalidUtf8 carrying exactly those L bytes.                              *)
C8_Utf8OrNothing ==
    op = "read_str" =>
        /\ res.tag = "Ok" =>
              /\ StrHeader.ok
              /\ ~DeclaresMoreThan(Len(buf0))
              /\ PayloadLeft >= DeclaredLen
              /\ from_utf8(Payload).ok
              /\ res.val = MkVal("str", Payload)
        /\ (/\ StrHeader.ok
            /\ ~DeclaresMoreThan(Len(buf0))
            /\ PayloadLeft >= DeclaredLen
            /\ ~from_utf8(Payload).ok) =>
              /\ res.tag = "Err"
              /\ res.err.kind = "InvalidUtf8"
              /\ res.err.bytes = Payload

\* three bytes, the last one half of a two-byte sequence: InvalidUtf8 with
\* all three
C8_Witness ==
    /\ op = "read_str"
    /\ rd0 # <<>> /\ rd0[1] = 163
    /\ res.tag = "Err"
    /\ res.err.kind = "InvalidUtf8"
    /\ res.err.bytes = <<195, 169, 226>>
    /\ res.err.upto = 2

(* C9: read_str on a header declaring L, at least L bytes of valid UTF-8    *)
(* and a buffer of capacity >= L returns the L bytes after the header; they *)
(* are in buf[0..L], the buffer from index L on is unchanged, and exactly   *)
(* h + L bytes were consumed.                                               *)
C9_StrSuccess ==
    (/\ op = "read_str"
     /\ StrHeader.ok
     /\ ~DeclaresMoreThan(Len(buf0))
     /\ PayloadLeft >= DeclaredLen
     /\ from_utf8(Payload).ok) =>
        /\ res = Ok(MkVal("str", Payload))
        /\ Len(buf) = Len(buf0)
        /\ SubSeq(buf, 1, DeclaredLen) = Payload
        /\ SubSeq(buf, DeclaredLen + 1, Len(buf)) = SubSeq(buf0, DeclaredLen + 1, Len(buf0))
        /\ Consumed = StrHeader.h + DeclaredLen
        /\ rd = SubSeq(rd0, StrHeader.h + DeclaredLen + 1, Len(rd0))

\* a str16 header declaring 3, text of more than 3 bytes, a 10-byte buffer:
\* the 3 bytes are returned, 7 bytes of the buffer are untouched and the rest
\* of the input is unread
C9_Witness ==
    /\ op = "read_str"
    /\ Len(rd0) >= 6 /\ rd0[1] = 218 /\ rd0[2] = 0 /\ rd0[3] = 3
    /\ Len(buf0) = 10
    /\ res = Ok(MkVal("str", <<108, 101, 32>>))
    /\ buf = <<108, 101, 32>> \o Fill(7, 238)
    /\ Len(rd) = Len(rd0) - 6
    /\ Len(rd) > 0

(* C10: read_str_ref on a slice with a valid string header declaring L:     *)
(* with fewer than L bytes after the header it returns an end-of-input      *)
(* error value, with at least L bytes it returns slice[h .. h+L].           *)
C10_StrRefBoundsChecked ==
    (op = "read_str_ref" /\ StrHeader.ok) =>
        IF DeclaresMoreThan(PayloadLeft)
        THEN res.tag = "Err" /\ res.err.cause = "UnexpectedEOF"
        ELSE res = Ok(MkVal("bytes", Payload))

\* the bin header the input of the last call starts with: its size h and the
\* length L it declares, as four bytes
BinHeader ==
    IF rd0 = <<>> THEN [ok |-> FALSE, h |-> 0, len |-> <<0, 0, 0, 0>>]
    ELSE CASE rd0[1] = 196 /\ Len(rd0) >= 2 ->
                [ok |-> TRUE, h |-> 2, len |-> <<0, 0, 0, rd0[2]>>]
           [] rd0[1] = 197 /\ Len(rd0) >= 3 ->
                [ok |-> TRUE, h |-> 3, len |-> <<0, 0, rd0[2], rd0[3]>>]
           [] rd0[1] = 198 /\ Len(rd0) >= 5 ->
                [ok |-> TRUE, h |-> 5, len |-> <<rd0[2], rd0[3], rd0[4], rd0[5]>>]
           [] OTHER -> [ok |-> FALSE, h |-> 0, len |-> <<0, 0, 0, 0>>]

\* L as a number, when it is below 2^24
BinDeclaredLen ==
    BinHeader.len[2] * 65536 + BinHeader.len[3] * 256 + BinHeader.len[4]

\* the slice is shorter than h + L
BinSliceTooShort ==
    BinHeader.len[1] # 0 \/ Len(rd0) < BinHeader.h + BinDeclaredLen

(* C11: read_bin_borrow on a slice that starts with a bin8/16/32 header of  *)
(* size h declaring L returns the view slice[h .. h+L] when the slice has   *)
(* at least h + L bytes and InvalidDataRead(UnexpectedEOF) otherwise; the   *)
(* view never reaches past the payload or the slice.                        *)
C11_BinBorrow ==
    (op = "read_bin_borrow" /\ BinHeader.ok) =>
        IF BinSliceTooShort
        THEN /\ res.tag = "Err"
             /\ res.err.ety = "ValueReadError"
             /\ res.err.kind = "InvalidDataRead"
             /\ res.err.cause = "UnexpectedEOF"
        ELSE /\ res.tag = "Ok"
             /\ res.val.ty = "bytes"
             /\ Len(res.val.bits) = BinDeclaredLen
             /\ BinHeader.h + Len(res.val.bits) <= Len(rd0)
             /\ \A i \in 1..BinDeclaredLen : res.val.bits[i] = rd0[BinHeader.h + i]

\* a bin8 header declaring 3 and four more bytes: the view is the first three
C11_Witness ==
    /\ op = "read_bin_borrow"
    /\ rd0 = <<196, 3, 108, 101, 32, 109>>
    /\ res = Ok(MkVal("bytes", <<108, 101, 32>>))

\* the wire bytes of each length reader's family: the fix range lo..hi (none
\* when lo > hi) and the markers that an 8, 16 or 32-bit length field follows
\* (-1 when the family has none)
Family(o) ==
    CASE o = "read_str_len" -> [lo |-> 160, hi |-> 191, m8 |-> 217, m16 |-> 218, m32 |-> 219]
      [] o = "read_array_size" -> [lo |-> 144, hi |-> 159, m8 |-> -1, m16 |-> 220, m32 |-> 221]
      [] o = "read_map_size" -> [lo |-> 128, hi |-> 143, m8 |-> -1, m16 |-> 222, m32 |-> 223]
      [] o = "read_bin_len" -> [lo |-> 1, hi |-> 0, m8 |-> 196, m16 |-> 197, m32 |-> 198]

InFamily(o, b) ==
    \/ b >= Family(o).lo /\ b <= Family(o).hi
    \/ b \in {Family(o).m8, Family(o).m16, Family(o).m32}

(* C12: read_str_len, read_array_size, read_map_size and read_bin_len       *)
(* return as u32 the length held in the marker (fixstr, fixarray, fixmap)   *)
(* or the big-endian 8/16/32-bit length field after a marker of their own   *)
(* family, and fail with TypeMismatch(actual marker) on a marker outside    *)
(* their family; read_array_size gives back 0, 15, 16, 65535 and 65536.     *)
C12_LengthReaders ==
    (op \in LengthReaders /\ rd0 # <<>>) =>
        LET b == rd0[1]
            f == Family(op)
        IN  /\ (b >= f.lo /\ b <= f.hi) =>
                  res = Ok(MkVal("u32", <<0, 0, 0, b - f.lo>>)) /\ Consumed = 1
            /\ (b = f.m8 /\ Len(rd0) >= 2) =>
                  res = Ok(MkVal("u32", <<0, 0, 0, rd0[2]>>)) /\ Consumed = 2
            /\ (b = f.m16 /\ Len(rd0) >= 3) =>
                  res = Ok(MkVal("u32", <<0, 0, rd0[2], rd0[3]>>)) /\ Consumed = 3
            /\ (b = f.m32 /\ Len(rd0) >= 5) =>
                  res = Ok(MkVal("u32", <<rd0[2], rd0[3], rd0[4], rd0[5]>>)) /\ Consumed = 5
            /\ ~InFamily(op, b) =>
                  /\ IsTypeMismatch(res, FirstMarker)
                  /\ res.err.ety = "ValueReadError"
            /\ (op = "read_array_size" /\ rd0 = <<144>>) => ToNat(res.val.bits) = 0
            /\ (op = "read_array_size" /\ rd0 = <<159>>) => ToNat(res.val.bits) = 15
            /\ (op = "read_array_size" /\ rd0 = <<220, 0, 16>>) => ToNat(res.val.bits) = 16
            /\ (op = "read_array_size" /\ rd0 = <<220, 255, 255>>) =>
                  ToNat(res.val.bits) = 65535
            /\ (op = "read_array_size" /\ rd0 = <<221, 0, 1, 0, 0>>) =>
                  ToNat(res.val.bits) = 65536

\* an array32 header holding 65536 gave 65536
C12_Witness ==
    /\ op = "read_array_size"
    /\ rd0 = <<221, 0, 1, 0, 0>>
    /\ res = Ok(MkVal("u32", <<0, 1, 0, 0>>))
    /\ rd = <<>>

\* the payload width each fixext marker byte stands for
FixExtSize(b) ==
    CASE b = 212 -> 1 [] b = 213 -> 2 [] b = 214 -> 4 [] b = 215 -> 8 [] b = 216 -> 16

\* the descriptor of an extension with type-id byte t and a size s below 256
MetaOf(t, s) == ExtMeta(MkVal("i8", <<t>>), MkVal("u32", <<0, 0, 0, s>>))

(* C13: read_ext_meta gives one descriptor for both spellings of an         *)
(* extension header: [fixext-s marker, t] and [ext8 marker, s, t] decode to *)
(* the same ExtMeta { typeid: t, size: s }; in general size is the fixext   *)
(* width or the big-endian ext8/16/32 length field and typeid the signed    *)
(* byte after the length field.                                             *)
C13_ExtMetaUnified ==
    (op = "read_ext_meta" /\ rd0 # <<>>) =>
        /\ (rd0[1] \in 212..216 /\ Len(rd0) >= 2) =>
              res = Ok(MetaOf(rd0[2], FixExtSize(rd0[1]))) /\ Consumed = 2
        /\ (rd0[1] = 199 /\ Len(rd0) >= 3) =>
              res = Ok(MetaOf(rd0[3], rd0[2])) /\ Consumed = 3
        /\ (rd0[1] = 200 /\ Len(rd0) >= 4) =>
              /\ res = Ok(ExtMeta(MkVal("i8", <<rd0[4]>>),
                                  MkVal("u32", <<0, 0, rd0[2], rd0[3]>>)))
              /\ Consumed = 4
        /\ (rd0[1] = 201 /\ Len(rd0) >= 6) =>
              /\ res = Ok(ExtMeta(MkVal("i8", <<rd0[6]>>),
                                  MkVal("u32", <<rd0[2], rd0[3], rd0[4], rd0[5]>>)))
              /\ Consumed = 6

\* [ext8, 16, 0xff] gave typeid -1 and size 16, what [fixext16, 0xff] gives
C13_Witness ==
    /\ op = "read_ext_meta"
    /\ rd0 = <<199, 16, 255>>
    /\ res = Ok(ExtMeta(I8(-1), U32(16)))
    /\ res = read_ext_meta(<<216, 255>>, 0).res

\* the marker bytes of the extension family
ExtMarkerBytes == {199, 200, 201} \cup (212..216)

(* C14: read_ext_meta on an input whose first byte is not an extension      *)
(* marker returns a TypeMismatch error value that carries the marker read.  *)
C14_ExtMetaTypeMismatch ==
    (op = "read_ext_meta" /\ rd0 # <<>> /\ rd0[1] \notin ExtMarkerBytes) =>
        IsTypeMismatch(res, FirstMarker)

FixextReaders ==
    {"read_fixext1", "read_fixext2", "read_fixext4", "read_fixext8", "read_fixext16"}

\* the marker byte and the payload width of each fixext reader
FixextOwn(o) ==
    CASE o = "read_fixext1" -> [byte |-> 212, n |-> 1]
      [] o = "read_fixext2" -> [byte |-> 213, n |-> 2]
      [] o = "read_fixext4" -> [byte |-> 214, n |-> 4]
      [] o = "read_fixext8" -> [byte |-> 215, n |-> 8]
      [] o = "read_fixext16" -> [byte |-> 216, n |-> 16]

(* C15: each of read_fixext1/2/4/8/16 on an input whose first byte is a     *)
(* marker other than its own, another fixext size included, returns a       *)
(* TypeMismatch error value that carries the marker read.                   *)
C15_FixextTypeMismatch ==
    (op \in FixextReaders /\ rd0 # <<>> /\ rd0[1] # FixextOwn(op).byte) =>
        IsTypeMismatch(res, FirstMarker)

(* C16: read_fixext8 and read_fixext16 given their marker and a type id     *)
(* return a data-read error value when fewer than 8 / 16 payload bytes      *)
(* follow, and the type id with the 8 / 16 payload bytes in input order     *)
(* when the payload is whole.                                               *)
C16_FixextPayload ==
    (/\ op \in {"read_fixext8", "read_fixext16"}
     /\ Len(rd0) >= 2
     /\ rd0[1] = FixextOwn(op).byte) =>
        IF Len(rd0) - 2 < FixextOwn(op).n
        THEN res.tag = "Err" /\ res.err.kind = "InvalidDataRead"
        ELSE /\ res = Ok(Pair(MkVal("i8", <<rd0[2]>>),
                              MkVal("bytes", SubSeq(rd0, 3, 2 + FixextOwn(op).n))))
             /\ Consumed = 2 + FixextOwn(op).n

DecoderIntOps ==
    {"Decoder::read_u8", "Decoder::read_u16", "Decoder::read_u32", "Decoder::read_u64",
     "Decoder::read_i8", "Decoder::read_i16", "Decoder::read_i32", "Decoder::read_i64"}

\* what the loose reader of the same type and signedness does on the input
\* of the last call
LooseOutcome ==
    CASE op = "Decoder::read_u8" -> read_u8_loosely(rd0, 0)
      [] op = "Decoder::read_u16" -> read_u16_loosely(rd0, 0)
      [] op = "Decoder::read_u32" -> read_u32_loosely(rd0, 0)
      [] op = "Decoder::read_u64" -> read_u64_loosely(rd0, 0)
      [] op = "Decoder::read_i8" -> read_i8_loosely(rd0, 0)
      [] op = "Decoder::read_i16" -> read_i16_loosely(rd0, 0)
      [] op = "Decoder::read_i32" -> read_i32_loosely(rd0, 0)
      [] op = "Decoder::read_i64" -> read_i64_loosely(rd0, 0)

(* C20: each integer primitive of the Decoder (read_u8 .. read_u64,         *)
(* read_i8 .. read_i64) has on every input the outcome of the loose reader  *)
(* of its type: the same value on success, and on failure the Error         *)
(* variant of the same name and payload, TypeMismatch(m),                   *)
(* InvalidMarkerRead(e) or InvalidDataRead(e); the source is left where the *)
(* loose reader leaves it.                                                  *)
C20_AdapterMatchesLoose ==
    op \in DecoderIntOps =>
        LET l == LooseOutcome
        IN  /\ rd = SubSeq(rd0, l.pos + 1, Len(rd0))
            /\ l.res.tag \in {"Ok", "Err"}
            /\ res.tag = l.res.tag
            /\ l.res.tag = "Ok" => res.val = l.res.val
            /\ l.res.tag = "Err" =>
                  /\ res.err.ety = "Error"
                  /\ l.res.err.ety = "ValueReadError"
                  /\ res.err.kind = l.res.err.kind
                  /\ res.err.kind \in {"TypeMismatch", "InvalidMarkerRead", "InvalidDataRead"}
                  /\ res.err.marker = l.res.err.marker
                  /\ res.err.cause = l.res.err.cause

\* a u8 encoding of 255 read with Decoder::read_u32 gave the u32 255
C20_Witness ==
    /\ op = "Decoder::read_u32"
    /\ rd0 = <<204, 255>>
    /\ res = Ok(MkVal("u32", <<0, 0, 0, 255>>))
    /\ rd = <<>>

\* the array header the input of the last call starts with: its size h and
\* the count A it holds, as four bytes
ArrayHeader ==
    IF rd0 = <<>> THEN [ok |-> FALSE, h |-> 0, len |-> <<0, 0, 0, 0>>]
    ELSE CASE rd0[1] >= 144 /\ rd0[1] <= 159 ->
                [ok |-> TRUE, h |-> 1, len |-> <<0, 0, 0, rd0[1] - 144>>]
           [] rd0[1] = 220 /\ Len(rd0) >= 3 ->
                [ok |-> TRUE, h |-> 3, len |-> <<0, 0, rd0[2], rd0[3]>>]
           [] rd0[1] = 221 /\ Len(rd0) >= 5 ->
                [ok |-> TRUE, h |-> 5, len |-> <<rd0[2], rd0[3], rd0[4], rd0[5]>>]
           [] OTHER -> [ok |-> FALSE, h |-> 0, len |-> <<0, 0, 0, 0>>]

\* A is the number n
ArrayHolds(n) ==
    /\ ArrayHeader.len[1] = 0
    /\ ArrayHeader.len[2] * 65536 + ArrayHeader.len[3] * 256 + ArrayHeader.len[4] = n

(* C17: Decoder::read_tuple(len, f) and Decoder::read_struct(name, len, f) *)
(* read one array header holding A; when A = len they invoke f exactly once *)
(* and return what it returned; when A # len they return LengthMismatch(A)  *)
(* without invoking f and with nothing consumed beyond the array header.    *)
C17_TupleLength ==
    (op \in {"Decoder::read_tuple", "Decoder::read_struct"} /\ ArrayHeader.ok) =>
        IF ArrayHolds(args.len)
        THEN /\ Len(calls) = 1
             /\ calls[1].arg = Unit
             /\ calls[1].rd = SubSeq(rd0, ArrayHeader.h + 1, Len(rd0))
             /\ res = calls[1].ret
        ELSE /\ res.tag = "Err"
             /\ res.err.ety = "Error"
             /\ res.err.kind = "LengthMismatch"
             /\ res.err.len = MkVal("u32", ArrayHeader.len)
             /\ calls = <<>>
             /\ Consumed = ArrayHeader.h
             /\ rd = SubSeq(rd0, ArrayHeader.h + 1, Len(rd0))

\* a header holding 3 where 2 fields were expected: LengthMismatch(3), the
\* three elements unread
C17_Witness ==
    /\ op = "Decoder::read_tuple"
    /\ rd0 = <<147, 5, 5, 5>>
    /\ args.len = 2
    /\ res = Err(Error_LengthMismatch(MkVal("u32", <<0, 0, 0, 3>>)))
    /\ calls = <<>>
    /\ rd = <<5, 5, 5>>

\* the first invocation returned exactly Err(TypeMismatch(Marker::Null))
ProbeSawNil ==
    /\ calls[1].ret.tag = "Err"
    /\ calls[1].ret.err.kind = "TypeMismatch"
    /\ calls[1].ret.err.marker = Marker("Null", 0)

(* C18: Decoder::read_option(f) first calls f(self, true); when that is Ok  *)
(* it returns the value and calls f no more; when it is exactly             *)
(* TypeMismatch(Null) it calls f(self, false) once and returns what that    *)
(* returned; on every other error it returns that error unchanged and       *)
(* never calls f(self, false).                                              *)
C18_OptionProbe ==
    op = "Decoder::read_option" =>
        /\ Len(calls) >= 1
        /\ calls[1].arg = Bool(TRUE)
        /\ calls[1].rd = rd0
        /\ calls[1].ret.tag = "Ok" => (Len(calls) = 1 /\ res = calls[1].ret)
        /\ ProbeSawNil =>
              /\ Len(calls) = 2
              /\ calls[2].arg = Bool(FALSE)
              /\ res = calls[2].ret
        /\ (calls[1].ret.tag = "Err" /\ ~ProbeSawNil) =>
              (Len(calls) = 1 /\ res = calls[1].ret)

\* nil read as an Option<u8>: the probe failed with TypeMismatch(Null), the
\* second call answered None
C18_Witness ==
    /\ op = "Decoder::read_option"
    /\ rd0 = <<192>>
    /\ args.f = Callback("value", <<"u8">>, "None")
    /\ Len(calls) = 2
    /\ calls[1].ret = Err(Error_TypeMismatch(Marker("Null", 0)))
    /\ calls[2].arg = Bool(FALSE)
    /\ res = Ok(None)

\* the map header the input of the last call starts with: its size h and the
\* count it holds, as four bytes
MapHeader ==
    IF rd0 = <<>> THEN [ok |-> FALSE, h |-> 0, len |-> <<0, 0, 0, 0>>]
    ELSE CASE rd0[1] >= 128 /\ rd0[1] <= 143 ->
                [ok |-> TRUE, h |-> 1, len |-> <<0, 0, 0, rd0[1] - 128>>]
           [] rd0[1] = 222 /\ Len(rd0) >= 3 ->
                [ok |-> TRUE, h |-> 3, len |-> <<0, 0, rd0[2], rd0[3]>>]
           [] rd0[1] = 223 /\ Len(rd0) >= 5 ->
                [ok |-> TRUE, h |-> 5, len |-> <<rd0[2], rd0[3], rd0[4], rd0[5]>>]
           [] OTHER -> [ok |-> FALSE, h |-> 0, len |-> <<0, 0, 0, 0>>]

\* the header read_seq or read_map reads
CountHeader == IF op = "Decoder::read_seq" THEN ArrayHeader ELSE MapHeader

\* the count exceeds n
CountExceeds(n) ==
    \/ CountHeader.len[1] # 0
    \/ CountHeader.len[2] * 65536 + CountHeader.len[3] * 256 + CountHeader.len[4] > n

\* the count as a number, when it is below 2^24
Count == CountHeader.len[2] * 65536 + CountHeader.len[3] * 256 + CountHeader.len[4]

\* values the callback decodes in all when it reads an item: one for an
\* element, two for a key and its value
PerItem == Len(args.f.fs)

\* the count asks for more values than there are bytes after the header
Oversized ==
    \A k \in 0..(Len(rd0) - CountHeader.h) :
        k * PerItem <= Len(rd0) - CountHeader.h => CountExceeds(k)

(* C19: Decoder::read_seq and Decoder::read_map read exactly one array /    *)
(* map header and hand its count unchanged to the callback, whatever the    *)
(* input still holds; a callback that reads that many items from an input   *)
(* holding fewer finds the reads past the end of the input failing with     *)
(* InvalidMarkerRead(UnexpectedEOF), so an oversized count ends in an error *)
(* and never in a successful result.                                        *)
C19_CountUnchecked ==
    (op \in {"Decoder::read_seq", "Decoder::read_map"} /\ CountHeader.ok) =>
        /\ Len(calls) = 1
        /\ calls[1].arg = MkVal("usize", <<0, 0, 0, 0>> \o CountHeader.len)
        /\ calls[1].rd = SubSeq(rd0, CountHeader.h + 1, Len(rd0))
        /\ res = calls[1].ret
        /\ Oversized => res.tag = "Err"
        /\ res.tag = "Ok" =>
              /\ ~CountExceeds(Len(res.val.items))
              /\ Len(res.val.items) = Count
              /\ Consumed >= CountHeader.h + Count * PerItem
        /\ (/\ Oversized
            /\ args.f.fs \in {<<"u8">>, <<"u8", "u8">>}
            /\ \A i \in (CountHeader.h + 1)..Len(rd0) : rd0[i] < 128) =>
              /\ res = Err(Error_InvalidMarkerRead("UnexpectedEOF"))
              /\ rd = <<>>
        /\ (res.tag = "Err" /\ res.err.kind = "InvalidMarkerRead") =>
              res.err.cause = "UnexpectedEOF" /\ rd = <<>>

\* a header holding 3 and two elements: the callback was given 3, read the
\* two and failed on the third at the end of the input
C19_Witness ==
    /\ op = "Decoder::read_seq"
    /\ rd0 = <<147, 5, 5>>
    /\ args.f = Callback("elts", <<"u8">>, "none")
    /\ Len(calls) = 1
    /\ calls[1].arg = MkVal("usize", <<0, 0, 0, 0, 0, 0, 0, 3>>)
    /\ res = Err(Error_InvalidMarkerRead("UnexpectedEOF"))
    /\ rd = <<>>

---------------------------------------------------------------------------
(* C21: failures of Decoder::read_str. *)

\* C21: every call of Decoder::read_str returns: a string, or an Err holding
\* an Error.  A marker that is not a string marker, a length field cut short,
\* a payload shorter than the declared length and a payload that is not
\* UTF-8 each give a returned Err, and no call ends in a panic.
C21_ReadStrReturns ==
    op = "Decoder::read_str" =>
        /\ res.tag \in {"Ok", "Err"}
        /\ res.tag = "Err" => res.err.ety = "Error"
        /\ ~StrHeader.ok => res.tag = "Err"
        /\ (StrHeader.ok /\ DeclaresMoreThan(PayloadLeft)) => res.tag = "Err"
        /\ (StrHeader.ok /\ ~DeclaresMoreThan(PayloadLeft) /\ ~from_utf8(Payload).ok) =>
              res.tag = "Err"

---------------------------------------------------------------------------
(* C22: the operations the Decoder does not support. *)

Unsupported ==
    { "Decoder::read_char", "Decoder::read_enum", "Decoder::read_enum_variant",
      "Decoder::read_enum_variant_arg", "Decoder::read_enum_struct_variant",
      "Decoder::read_enum_struct_variant_field", "Decoder::read_tuple_struct",
      "Decoder::read_tuple_struct_arg" }

\* C22: a call of an unsupported operation of the Decoder fails: it hands
\* back no decoded value, its callback is not invoked, and the source stands
\* where it stood before the call.
C22_UnsupportedFailFast ==
    op \in Unsupported =>
        /\ res.tag # "Ok"
        /\ res.val = NoVal
        /\ calls = <<>>
        /\ rd = rd0

\* read_tuple_struct on a two-element array, asked for two fields by a
\* callback that could decode them: nothing decoded, nothing consumed
C22_Witness ==
    /\ op = "Decoder::read_tuple_struct"
    /\ rd0 = <<146, 5, 5>>
    /\ args = [len |-> 2, f |-> Callback("fields", <<"u8", "u8">>, "none")]
    /\ res.tag # "Ok"
    /\ calls = <<>>
    /\ rd = rd0

---------------------------------------------------------------------------
(* C23: where Decoder::read_option reports absence. *)

\* C23: when read_option invokes its callback with `false`, the source has
\* advanced by exactly one byte since read_option was entered, and that byte
\* is the nil marker 0xc0: absence is reported for a nil at the front of the
\* optional value only, for every callback, those decoding a tuple included.
C23_AbsenceAtFirstByte ==
    op = "Decoder::read_option" =>
        \A i \in 1..Len(calls) :
            calls[i].arg = Bool(FALSE) =>
                /\ rd0 # <<>>
                /\ rd0[1] = 192
                /\ calls[i].rd = Tail(rd0)

---------------------------------------------------------------------------
(* C24: where a reader leaves the source. *)

\* the readers that are handed a slice, not a source to read from
SliceReaders == {"read_str_ref", "read_bin_borrow"}

\* the last call was of a reader (not of the Decoder) and failed with a
\* type mismatch
ReaderMismatch ==
    /\ owner = "caller"
    /\ res.tag = "Err"
    /\ res.err.kind = "TypeMismatch"

\* what is left of the source is the end of what the call found
NotBackwards == Consumed >= 0 /\ rd = SubSeq(rd0, Consumed + 1, Len(rd0))

\* C24 as stated: every reader that fails with a type mismatch has consumed
\* exactly one byte of the input, the marker, so that the next reader starts
\* at the byte following it; and no call, failed or not, moves the input
\* backwards.
C24_MismatchConsumesMarker ==
    /\ ReaderMismatch => (Consumed = 1 /\ rd = Tail(rd0))
    /\ NotBackwards

\* C24 amended: a reader that reads from a source (rd: &mut R) and fails with
\* a type mismatch has consumed exactly one byte, the marker, and the source
\* stands at the byte following it; read_str_ref and read_bin_borrow are
\* handed the slice itself and leave the caller's input where it was,
\* whatever they return; no call moves the input backwards.
C24_StreamMismatchConsumesMarker ==
    /\ (ReaderMismatch /\ op \notin SliceReaders) =>
          /\ Consumed = 1
          /\ rd = Tail(rd0)
          /\ res.err.marker = FirstMarker
    /\ (ReaderMismatch /\ op \in SliceReaders) =>
          /\ res.err.marker = FirstMarker
          /\ rd = rd0
    /\ op \in SliceReaders => rd = rd0
    /\ NotBackwards

\* read_u8_loosely on nil followed by a letter: TypeMismatch(Null), and the
\* source stands at the letter
C24_Witness ==
    /\ op = "read_u8_loosely"
    /\ rd0 = <<192, 97>>
    /\ res = Err(ValueReadError_TypeMismatch(Marker("Null", 0)))
    /\ rd = <<97>>

=============================================================================
